---- MODULE Spec2Model ----
(***************************************************************************)
(* OmniDataGateway (src/数据网关.py): classification, normalization,       *)
(* calendar alignment and panel assembly of spot and futures price series. *)
(*                                                                         *)
(* A DataFrame is modelled column-wise: [columns |-> sequence of column    *)
(* names, data |-> sequence of columns, each a sequence of cells].  Cells  *)
(* are pairs <<kind, value>>:                                              *)
(*   <<"str", d>>   text that the date parser reads as calendar day d      *)
(*   <<"text", 0>>  text that is neither a date nor a number               *)
(*   <<"ts", d>>    a Timestamp at midnight of calendar day d (days are    *)
(*                  integers, day 1 is 2024-01-01)                         *)
(*   <<"tsns", n>>  the Timestamp n nanoseconds from 1970-01-01 00:00,     *)
(*                  n # 0: what the date parser makes of the number n      *)
(*   <<"nat", 0>>   NaT, the absent date                                   *)
(*   <<"num", v>>   a number                                               *)
(*   <<"nan", 0>>   NaN, the absent number                                 *)
(*   <<"none", 0>>  Python None stored in an object column                 *)
(* Column names are strings.  The Chinese synonyms of the source are       *)
(* written in pinyin (riqi = 日期, shoupanjia = 收盘价, ...), since module  *)
(* text is ASCII.                                                          *)
(***************************************************************************)
EXTENDS Integers, Sequences, FiniteSets, TLC

VARIABLES
    pc,                    \* position of the driver that calls the gateway
    spot_data,             \* self.spot_data: <<>> (None) or <<DataFrame>>
    futures_data,          \* self.futures_data: insertion-ordered dict, a sequence of [code, df]
    field_mapping_cache,   \* self._field_mapping_cache: function from [columns, field] to result
    scanned_spot,          \* history: the spot slot as the scan left it
    panel,                 \* the value returned by the last get_unified_panel
    arg,                   \* argument record of the call under study
    ret,                   \* value(s) returned by the call(s) under study
    written                \* the output files the entry points have written

vars == <<pc, spot_data, futures_data, field_mapping_cache, scanned_spot, panel, arg, ret, written>>

(***************************************************************************)
(* Bounds of the model.                                                    *)
(***************************************************************************)
MaxRows == 3       \* rows of a raw table handed to the normalizer
MaxSpotRows == 2   \* rows of the spot file of a scanned directory
MaxContracts == 2  \* futures files of a scanned directory, one per contract code

Dates == 1..3      \* the calendar days of the model

(***************************************************************************)
(* Cells.                                                                  *)
(***************************************************************************)
Ts(d) == <<"ts", d>>
TsNs(n) == <<"tsns", n>>
Str(d) == <<"str", d>>
Num(v) == <<"num", v>>
NaT == <<"nat", 0>>
NaN == <<"nan", 0>>
PyNone == <<"none", 0>>
Text == <<"text", 0>>

None == <<>>
Some(x) == <<x>>

isna(c) == c[1] \in {"nat", "nan", "none"}

(***************************************************************************)
(* Timestamps.  A Timestamp is a midnight (Ts) or lies within seconds of   *)
(* the midnight of 1970-01-01 (TsNs): it is its anchor day and its offset  *)
(* from that midnight in nanoseconds, the offset far less than a day.      *)
(***************************************************************************)
\* 1970-01-01 as a day of the model: 54 years, 13 of them leap years, before
\* day 1
EpochDay == 1 - (54 * 365 + 13)

IsTs(c) == c[1] \in {"ts", "tsns"}
TsAnchor(c) == IF c[1] = "ts" THEN c[2] ELSE EpochDay
TsOffset(c) == IF c[1] = "ts" THEN 0 ELSE c[2]

\* a < b of two Timestamps
TsBefore(a, b) ==
    \/ TsAnchor(a) < TsAnchor(b)
    \/ TsAnchor(a) = TsAnchor(b) /\ TsOffset(a) < TsOffset(b)

\* (a - b).days: the days of a Timedelta round down
TsDays(a, b) ==
    IF TsOffset(a) >= TsOffset(b) THEN TsAnchor(a) - TsAnchor(b)
    ELSE TsAnchor(a) - TsAnchor(b) - 1

\* the Timestamps of a column
Timestamps(col) == {col[i] : i \in {j \in DOMAIN col : IsTs(col[j])}}

MinTs(S) == CHOOSE a \in S : \A b \in S : ~TsBefore(b, a)
MaxTs(S) == CHOOSE a \in S : \A b \in S : ~TsBefore(a, b)
notna(c) == ~isna(c)

Max(S) == CHOOSE x \in S : \A y \in S : y <= x
Min(S) == CHOOSE x \in S : \A y \in S : x <= y
Range(s) == {s[i] : i \in DOMAIN s}

(***************************************************************************)
(* Strings: str.lower(), str.strip() and re.search with a literal pattern. *)
(***************************************************************************)
UpperAlphabet == "ABCDEFGHIJKLMNOPQRSTUVWXYZ"
LowerAlphabet == "abcdefghijklmnopqrstuvwxyz"
DigitChars == "0123456789"

CharAt(s, i) == SubSeq(s, i, i)
CharIn(c, alphabet) == \E i \in 1..Len(alphabet) : CharAt(alphabet, i) = c

LowerChar(c) ==
    IF CharIn(c, UpperAlphabet)
    THEN CharAt(LowerAlphabet, CHOOSE i \in 1..Len(UpperAlphabet) : CharAt(UpperAlphabet, i) = c)
    ELSE c

RECURSIVE lower(_)
lower(s) == IF s = "" THEN "" ELSE LowerChar(CharAt(s, 1)) \o lower(SubSeq(s, 2, Len(s)))

\* the characters str.isspace() holds for among those a string of the
\* model can hold: the space, chr(9)..chr(13) and chr(28)..chr(31); the
\* vertical tab and chr(28)..chr(31) stand in the literal as they are
WhitespaceChars == " \t\n\r\f"

RECURSIVE strip(_)
strip(s) ==
    IF s = "" THEN ""
    ELSE IF CharIn(CharAt(s, 1), WhitespaceChars) THEN strip(SubSeq(s, 2, Len(s)))
    ELSE IF CharIn(CharAt(s, Len(s)), WhitespaceChars) THEN strip(SubSeq(s, 1, Len(s) - 1))
    ELSE s

\* re.search(pattern, s) for a pattern without metacharacters: substring test
re_search(pattern, s) ==
    \E i \in 1..(Len(s) - Len(pattern) + 1) : SubSeq(s, i, i + Len(pattern) - 1) = pattern

\* re.search(r'(p1|p2|...)', s)
re_search_any(patterns, s) == \E k \in DOMAIN patterns : re_search(patterns[k], s)

(***************************************************************************)
(* __init__: STANDARD_FIELDS                                               *)
(***************************************************************************)
STANDARD_FIELDS ==
    [date   |-> <<"date", "riqi", "shijian", "jiaoyiriqi", "tradingday", "time", "t_date">>,
     price  |-> <<"price", "shoupanjia", "jiesuanjia", "xianhuojiage", "close", "lastprice", "settlement">>,
     oi     |-> <<"oi", "chicangliang", "openinterest">>,
     volume |-> <<"volume", "chengjiaoliang", "vol">>]

Fields == {"date", "price", "oi", "volume"}

(***************************************************************************)
(* _map_standard_field(columns, standard_field).  Returns the pair of the  *)
(* returned value (None or Some(column)) and the cache after the call.     *)
(***************************************************************************)
\* every column name that occurs in a table of the model
ColumnNames ==
    {"date", "price", "oi", "volume", "spot_price", "close", "riqi", "shoupanjia",
     "chicangliang", "Close", "Volume", " Date", "OI", "memo", "point", "xianhuojiage"}

\* col.lower().strip(), evaluated once per name
LoweredNames == [col \in ColumnNames |-> strip(lower(col))]
lower_strip(col) == IF col \in ColumnNames THEN LoweredNames[col] ELSE strip(lower(col))

ColumnMatches(col, patterns) == re_search_any(patterns, lower_strip(col))

\* the columns each field's patterns match, evaluated once per name
MatchingColumns ==
    [field \in Fields |-> {col \in ColumnNames : ColumnMatches(col, STANDARD_FIELDS[field])}]

Matches(col, standard_field) ==
    IF standard_field \in Fields /\ col \in ColumnNames
    THEN col \in MatchingColumns[standard_field]
    ELSE standard_field \in Fields /\ ColumnMatches(col, STANDARD_FIELDS[standard_field])

\* the two loops of lines 194-199 swapped: the first pattern, in pattern
\* order, that matches some column decides
FirstMatchingPattern(columns, standard_field) ==
    LET patterns == IF standard_field \in Fields THEN STANDARD_FIELDS[standard_field] ELSE <<>>
        hit(k) == {i \in DOMAIN columns : re_search(patterns[k], lower_strip(columns[i]))}
        hits == {k \in DOMAIN patterns : hit(k) # {}}
    IN  IF hits = {} THEN None ELSE Some(columns[Min(hit(Min(hits)))])

FirstMatchingColumn(columns, standard_field) ==
    LET hits == {i \in DOMAIN columns : Matches(columns[i], standard_field)}
    IN  IF hits = {} THEN None ELSE Some(columns[Min(hits)])

\* the cache read by the set of the column names instead of the tuple
map_standard_field_by_column_set(cache, columns, standard_field) ==
    LET cache_key == [columns |-> columns, field |-> standard_field]
        same == {key \in DOMAIN cache :
                    key.field = standard_field /\ Range(key.columns) = Range(columns)}
    IN  IF same # {}
        THEN [ret |-> cache[CHOOSE key \in same : TRUE], cache |-> cache]
        ELSE LET found == FirstMatchingColumn(columns, standard_field)
             IN  [ret |-> found, cache |-> cache @@ (cache_key :> found)]

map_standard_field(cache, columns, standard_field) ==
    LET cache_key == [columns |-> columns, field |-> standard_field]
    IN  IF cache_key \in DOMAIN cache
        THEN [ret |-> cache[cache_key], cache |-> cache]
        ELSE LET found == FirstMatchingColumn(columns, standard_field)
             IN  [ret |-> found, cache |-> cache @@ (cache_key :> found)]

(***************************************************************************)
(* DataFrame helpers.                                                      *)
(***************************************************************************)
DataFrame(columns, data) == [columns |-> columns, data |-> data]

HasColumn(df, name) == \E i \in DOMAIN df.columns : df.columns[i] = name
ColumnIndex(df, name) == Min({i \in DOMAIN df.columns : df.columns[i] = name})
Column(df, name) == df.data[ColumnIndex(df, name)]

\* len(df): the number of rows
len(df) == IF df.data = <<>> THEN 0 ELSE Len(df.data[1])

\* df[name] = values: replaces the column when it exists, appends it otherwise
SetColumn(df, name, values) ==
    IF HasColumn(df, name)
    THEN [df EXCEPT !.data[ColumnIndex(df, name)] = values]
    ELSE DataFrame(Append(df.columns, name), Append(df.data, values))

\* df[[names]]: the listed columns, in the listed order
SelectColumns(df, names) ==
    DataFrame(names, [k \in DOMAIN names |-> Column(df, names[k])])

\* the rows of the given positions, in the given order, for every column
TakeRows(df, positions) ==
    DataFrame(df.columns,
              [c \in DOMAIN df.data |-> [k \in DOMAIN positions |-> df.data[c][positions[k]]]])

(***************************************************************************)
(* pd.to_datetime(column, errors='coerce') and pd.to_numeric(...,          *)
(* errors='coerce'), cell by cell.                                         *)
(***************************************************************************)
\* a number is read as nanoseconds from 1970-01-01 00:00
to_datetime_cell(c) ==
    CASE c[1] = "str"  -> Ts(c[2])
      [] c[1] = "ts"   -> c
      [] c[1] = "tsns" -> c
      [] c[1] = "num"  -> (IF c[2] = 0 THEN Ts(EpochDay) ELSE TsNs(c[2]))
      [] OTHER         -> NaT

to_datetime(col) == [i \in DOMAIN col |-> to_datetime_cell(col[i])]

to_numeric_cell(c) ==
    CASE c[1] = "num" -> c
      [] OTHER        -> NaN

to_numeric(col) == [i \in DOMAIN col |-> to_numeric_cell(col[i])]

\* astype(str) followed by the rewrite of 8-digit groups YYYYMMDD to YYYY-MM-DD:
\* a Timestamp prints as its date, every other cell of the model prints as
\* text that holds no 8-digit group and stays as unreadable as it was
astype_str_rewritten_cell(c) ==
    CASE c[1] = "ts"  -> Str(c[2])
      [] c[1] = "str" -> c
      [] OTHER        -> Text

astype_str_rewritten(col) == [i \in DOMAIN col |-> astype_str_rewritten_cell(col[i])]

\* the days of the cells that hold a date
DaysOf(col) == {col[i][2] : i \in {j \in DOMAIN col : col[j][1] = "ts"}}

\* dates.max() taken for the span, the first date not subtracted
date_span_to_last(dates) ==
    IF DaysOf(dates) = {} THEN NaN ELSE Num(Max(DaysOf(dates)))

\* (dates.max() - dates.min()).days, NaN when no date is present
date_span(dates) ==
    IF Timestamps(dates) = {} THEN NaN
    ELSE Num(TsDays(MaxTs(Timestamps(dates)), MinTs(Timestamps(dates))))

\* a < b and a > b of Python floats: False when either side is NaN
LessThan(a, b) == a[1] = "num" /\ a[2] < b
GreaterThan(a, b) == a[1] = "num" /\ a[2] > b

(***************************************************************************)
(* _detect_data_type(df, filename).  Returns the classification            *)
(* ("spot", "futures" or "None") and the cache after the call.             *)
(***************************************************************************)
FuturesSpanLimit == 1000
SpotSpanLimit == 1000
SpotRowLimit == 100

columns_lower(df) == [i \in DOMAIN df.columns |-> lower_strip(df.columns[i])]

has_oi(df) ==
    \E i \in DOMAIN df.columns :
        re_search_any(<<"chicangliang", "openinterest", "oi">>, columns_lower(df)[i])
has_volume(df) ==
    \E i \in DOMAIN df.columns :
        re_search_any(<<"chengjiaoliang", "volume", "vol">>, columns_lower(df)[i])
has_spot_price(df) ==
    \E i \in DOMAIN df.columns :
        re_search_any(<<"xianhuojiage", "spot">>, columns_lower(df)[i])

LessOrEqual(a, b) == a[1] = "num" /\ a[2] <= b

\* date_span <= 1000 in place of date_span < 1000
FuturesBySpanInclusive(cache, df) ==
    LET m == map_standard_field(cache, df.columns, "date")
        dates == to_datetime(Column(df, m.ret[1]))
    IN  [ret |-> /\ m.ret # None
                 /\ dates # <<>>
                 /\ LessOrEqual(date_span(dates), FuturesSpanLimit),
         cache |-> m.cache]

\* lines 155-165: the volume branch of the futures test
FuturesBySpan(cache, df) ==
    LET m == map_standard_field(cache, df.columns, "date")
        dates == to_datetime(Column(df, m.ret[1]))
    IN  [ret |-> /\ m.ret # None
                 /\ dates # <<>>
                 /\ LessThan(date_span(dates), FuturesSpanLimit),
         cache |-> m.cache]

\* lines 172-182: the long-history spot test
SpotBySpan(cache, df) ==
    LET m == map_standard_field(cache, df.columns, "date")
        dates == to_datetime(Column(df, m.ret[1]))
    IN  [ret |-> /\ m.ret # None
                 /\ dates # <<>>
                 /\ GreaterThan(date_span(dates), SpotSpanLimit),
         cache |-> m.cache]

detect_data_type(cache, df) ==
    LET oi == has_oi(df)
        vol == has_volume(df)
        spot == has_spot_price(df)
    IN  IF oi
        THEN [ret |-> "futures", cache |-> cache]
        ELSE LET f == IF vol /\ ~spot THEN FuturesBySpan(cache, df)
                                      ELSE [ret |-> FALSE, cache |-> cache]
             IN  IF f.ret THEN [ret |-> "futures", cache |-> f.cache]
                 ELSE IF spot /\ ~oi THEN [ret |-> "spot", cache |-> f.cache]
                 ELSE IF ~oi /\ len(df) > SpotRowLimit
                      THEN LET s == SpotBySpan(f.cache, df)
                           IN  [ret |-> IF s.ret THEN "spot" ELSE "None", cache |-> s.cache]
                      ELSE [ret |-> "None", cache |-> f.cache]

(***************************************************************************)
(* _normalize_dataframe(df, data_type, identifier).  Returns               *)
(* [raised, ret, cache]: raised is "" or the exception, ret the normalized *)
(* DataFrame, cache the field-mapping cache after the call.                *)
(***************************************************************************)
\* drop_duplicates(subset=['date'], keep='first'): the positions kept (NaT equals NaT)
FirstOccurrences(dates) ==
    {i \in DOMAIN dates : \A j \in 1..(i - 1) : dates[j] # dates[i]}

\* the elements of a set of positions as an ascending sequence
RECURSIVE Ascending(_)
Ascending(S) == IF S = {} THEN <<>> ELSE <<Min(S)>> \o Ascending(S \ {Min(S)})

\* keep='last' in place of keep='first'
LastOccurrences(dates) ==
    {i \in DOMAIN dates : \A j \in (i + 1)..Len(dates) : dates[j] # dates[i]}
drop_duplicates_keep_last(df) == TakeRows(df, Ascending(LastOccurrences(Column(df, "date"))))

drop_duplicates(df) == TakeRows(df, Ascending(FirstOccurrences(Column(df, "date"))))

\* sort_values('date'): ascending, NaT last (na_position='last'); ties keep
\* their order
DateBefore(dates, i, j) ==
    \/ IsTs(dates[i]) /\ IsTs(dates[j]) /\ TsBefore(dates[i], dates[j])
    \/ IsTs(dates[i]) /\ ~IsTs(dates[j])
    \/ dates[i] = dates[j] /\ i < j
    \/ ~IsTs(dates[i]) /\ ~IsTs(dates[j]) /\ i < j

SortRank(dates, i) == 1 + Cardinality({j \in DOMAIN dates : DateBefore(dates, j, i)})

sort_values(df) ==
    LET dates == Column(df, "date")
    IN  TakeRows(df, [k \in DOMAIN dates |-> CHOOSE i \in DOMAIN dates : SortRank(dates, i) = k])

\* ffill(limit=1): an absent cell takes the cell right above it only
ffill_limit_one(col) ==
    [i \in DOMAIN col |->
        IF notna(col[i]) \/ i = 1 THEN col[i]
        ELSE IF notna(col[i - 1]) THEN col[i - 1] ELSE col[i]]

\* Series.ffill(): an absent cell takes the last present cell above it
ffill(col) ==
    [i \in DOMAIN col |->
        IF notna(col[i]) \/ \A j \in 1..(i - 1) : isna(col[j])
        THEN col[i]
        ELSE col[Max({j \in 1..(i - 1) : notna(col[j])})]]

isna_all(col) == \A i \in DOMAIN col : isna(col[i])

\* lines 213-223: the date column, parsed
ParsedDates(df, date_col) ==
    LET date_series == to_datetime(Column(df, date_col))
    IN  IF isna_all(date_series)
        THEN to_datetime(astype_str_rewritten(Column(df, date_col)))
        ELSE date_series

\* lines 225-235: the price column; <<>> when none is found
PriceSource(df, price_col) ==
    IF price_col # None THEN price_col
    ELSE IF HasColumn(df, "shoupanjia") THEN Some("shoupanjia")
    ELSE IF HasColumn(df, "xianhuojiage") THEN Some("xianhuojiage")
    ELSE None

\* lines 237-245: oi and volume of a futures table
WithFuturesFields(df_normalized, df, oi_col, volume_col) ==
    LET with_oi == IF oi_col # None
                   THEN SetColumn(df_normalized, "oi", to_numeric(Column(df, oi_col[1])))
                   ELSE df_normalized
    IN  IF volume_col # None
        THEN SetColumn(with_oi, "volume", to_numeric(Column(df, volume_col[1])))
        ELSE with_oi

\* lines 247-253
standard_cols(df_normalized, data_type) ==
    <<"date", "price">>
    \o (IF data_type = "futures" /\ HasColumn(df_normalized, "oi") THEN <<"oi">> ELSE <<>>)
    \o (IF data_type = "futures" /\ HasColumn(df_normalized, "volume") THEN <<"volume">> ELSE <<>>)

\* lines 255-266
CleanRows(df_normalized, data_type) ==
    LET kept == SelectColumns(df_normalized, standard_cols(df_normalized, data_type))
        sorted == sort_values(drop_duplicates(kept))
    IN  SetColumn(sorted, "price", ffill(Column(sorted, "price")))

EmptyFrame == DataFrame(<<>>, <<>>)

normalize_dataframe(cache, df, data_type) ==
    LET md == map_standard_field(cache, df.columns, "date")
        mp == map_standard_field(md.cache, df.columns, "price")
        src == PriceSource(df, mp.ret)
        mo == map_standard_field(mp.cache, df.columns, "oi")
        mv == map_standard_field(mo.cache, df.columns, "volume")
        with_date == SetColumn(df, "date", ParsedDates(df, md.ret[1]))
        with_price == SetColumn(with_date, "price", to_numeric(Column(df, src[1])))
    IN  IF md.ret = None
        THEN [raised |-> "ValueError", ret |-> EmptyFrame, cache |-> md.cache]
        ELSE IF src = None
        THEN [raised |-> "ValueError", ret |-> EmptyFrame, cache |-> mp.cache]
        ELSE IF data_type = "futures"
        THEN [raised |-> "",
              ret |-> CleanRows(WithFuturesFields(with_price, df, mo.ret, mv.ret), data_type),
              cache |-> mv.cache]
        ELSE [raised |-> "", ret |-> CleanRows(with_price, data_type), cache |-> mp.cache]

\* sorted() of a set of Timestamps
RECURSIVE AscendingCells(_)
AscendingCells(S) ==
    IF S = {} THEN <<>> ELSE <<MinTs(S)>> \o AscendingCells(S \ {MinTs(S)})

\* futures_dates reassigned for each contract instead of updated: the dates
\* of the last contract only
futures_dates_last_contract(registry) ==
    IF Len(registry) = 0 THEN {}
    ELSE Timestamps(Column(registry[Len(registry)].df, "date"))

\* the two early returns left out, the slot rebuilt whenever a spot series is
\* loaded
align_to_futures_trading_days_unguarded(spot, registry) ==
    IF spot = None THEN spot
    ELSE LET targets == AscendingCells(UNION {Timestamps(Column(registry[c].df, "date")) :
                                                 c \in DOMAIN registry})
         IN  Some(DataFrame(<<"date", "price">>,
                            << targets, [k \in DOMAIN targets |-> NaN] >>))

(***************************************************************************)
(* _align_to_futures_trading_days().  Takes the spot slot and the registry *)
(* and returns the spot slot after the call.                               *)
(***************************************************************************)
\* lines 290-293: the dates of the dated rows of every contract
futures_dates(registry) ==
    UNION {Timestamps(Column(registry[c].df, "date")) : c \in DOMAIN registry}

\* lines 304-307: spot_date_price, read by key
SpotRowOf(spot, d) == CHOOSE i \in DOMAIN Column(spot, "date") : Column(spot, "date")[i] = d
HasSpotDate(spot, d) == \E i \in DOMAIN Column(spot, "date") : Column(spot, "date")[i] = d
SpotPriceAt(spot, d) == Column(spot, "price")[SpotRowOf(spot, d)]

\* abs((fut_date_dt - spot_dt).days)
DayDistance(a, b) == IF TsDays(a, b) >= 0 THEN TsDays(a, b) ELSE 0 - TsDays(a, b)

\* lines 323-329: the price of the first item of spot_date_price, in
\* insertion order, at the least day distance; an item keyed NaT has the
\* distance NaN and is never taken; None when no item is taken
closest_price(spot, d) ==
    LET dates == Column(spot, "date")
        dated == {i \in DOMAIN dates : IsTs(dates[i])}
        best == {i \in dated : \A j \in dated :
                    DayDistance(d, dates[i]) <= DayDistance(d, dates[j])}
    IN  IF dated = {} THEN PyNone ELSE Column(spot, "price")[Min(best)]

\* lines 311-332: the loop over the target days from position k on, with the
\* cursor last_spot_price; returns the prices appended
RECURSIVE AlignLoop(_, _, _, _)
AlignLoop(spot, targets, k, last_spot_price) ==
    IF k > Len(targets) THEN <<>>
    ELSE LET d == targets[k]
             price == IF HasSpotDate(spot, d) THEN SpotPriceAt(spot, d)
                      ELSE IF last_spot_price # PyNone THEN last_spot_price
                      ELSE closest_price(spot, d)
         IN  <<price>> \o AlignLoop(spot, targets, k + 1, price)

\* lines 311-332 once more, keeping for each target day the branch that
\* gave its price: "exact" (314-317), "cursor" (319-321) or "nearest"
\* (323-332)
RECURSIVE AlignBranches(_, _, _, _)
AlignBranches(spot, targets, k, last_spot_price) ==
    IF k > Len(targets) THEN <<>>
    ELSE LET d == targets[k]
             branch == IF HasSpotDate(spot, d) THEN "exact"
                       ELSE IF last_spot_price # PyNone THEN "cursor"
                       ELSE "nearest"
             price == IF branch = "exact" THEN SpotPriceAt(spot, d)
                      ELSE IF branch = "cursor" THEN last_spot_price
                      ELSE closest_price(spot, d)
         IN  <<[price |-> price, branch |-> branch]>>
                 \o AlignBranches(spot, targets, k + 1, price)

\* the aligned rows appended to the rows the slot held, instead of
\* replacing them
align_to_futures_trading_days_appending(spot, registry) ==
    IF spot = None \/ Len(registry) = 0 THEN spot
    ELSE IF futures_dates(registry) = {} THEN spot
    ELSE LET targets == AscendingCells(futures_dates(registry))
         IN  Some(DataFrame(<<"date", "price">>,
                            << Column(spot[1], "date") \o targets,
                               Column(spot[1], "price")
                                   \o AlignLoop(spot[1], targets, 1, PyNone) >>))

align_to_futures_trading_days(spot, registry) ==
    IF spot = None \/ Len(registry) = 0 THEN spot
    ELSE IF futures_dates(registry) = {} THEN spot
    ELSE LET targets == AscendingCells(futures_dates(registry))
         IN  Some(DataFrame(<<"date", "price">>,
                            << targets, AlignLoop(spot[1], targets, 1, PyNone) >>))

(***************************************************************************)
(* get_unified_panel().  A panel is [raised, index, columns, data]: the    *)
(* index cells, the column names and one sequence of cells per column.     *)
(***************************************************************************)
\* lines 344-348: every date cell of the spot slot and of the contracts
all_dates(spot, registry) ==
    (IF spot = None THEN {} ELSE Range(Column(spot[1], "date")))
    \cup UNION {Range(Column(registry[c].df, "date")) : c \in DOMAIN registry}

Orderings(S) == {p \in [1..Cardinality(S) -> S] : Range(p) = S}

DescendingCells(S) ==
    LET up == AscendingCells(S) IN [k \in DOMAIN up |-> up[Len(up) + 1 - k]]

\* sorted(..., reverse=True)
sorted_descending(S) == IF NaT \in S THEN Orderings(S) ELSE {DescendingCells(S)}

\* sorted(all_dates): ascending.  NaT compares False with every Timestamp,
\* so a set that holds NaT comes back in an order that depends on the
\* iteration order of the set: any order is possible
sorted(S) == IF NaT \in S THEN Orderings(S) ELSE {AscendingCells(S)}

\* dict(zip(df['date'], df['price'])).get(d, np.nan)
DictGet(df, d) ==
    LET dates == Column(df, "date")
        hits == {i \in DOMAIN dates : dates[i] = d}
    IN  IF hits = {} THEN NaN ELSE Column(df, "price")[Max(hits)]

\* futures minus spot in place of spot minus futures
subtract_reversed(a, b) ==
    IF a = PyNone \/ b = PyNone THEN PyNone
    ELSE IF a[1] = "num" /\ b[1] = "num" THEN Num(b[2] - a[2])
    ELSE NaN

\* a - b of two cells: NaN when either is NaN; None - x raises TypeError,
\* shown here as the result None
subtract(a, b) ==
    IF a = PyNone \/ b = PyNone THEN PyNone
    ELSE IF a[1] = "num" /\ b[1] = "num" THEN Num(a[2] - b[2])
    ELSE NaN

\* lines 363-374: the columns of one contract; a basis column with or
\* without a spot series
contract_columns_always_basis(spot, entry, index) ==
    LET futures == [k \in DOMAIN index |-> DictGet(entry.df, index[k])]
        basis == [k \in DOMAIN index |->
                     subtract(IF spot = None THEN NaN ELSE DictGet(spot[1], index[k]), futures[k])]
    IN  [columns |-> <<"futures_" \o entry.code, "basis_" \o entry.code>>,
         data |-> <<futures, basis>>]

\* lines 363-374: the columns of one contract
contract_columns(spot, entry, index) ==
    LET futures == [k \in DOMAIN index |-> DictGet(entry.df, index[k])]
        basis == [k \in DOMAIN index |-> subtract(DictGet(spot[1], index[k]), futures[k])]
    IN  IF spot # None
        THEN [columns |-> <<"futures_" \o entry.code, "basis_" \o entry.code>>,
              data |-> <<futures, basis>>]
        ELSE [columns |-> <<"futures_" \o entry.code>>, data |-> <<futures>>]

RECURSIVE AddContracts(_, _, _, _, _)
AddContracts(built, spot, registry, c, index) ==
    IF c > Len(registry) THEN built
    ELSE LET cols == contract_columns(spot, registry[c], index)
         IN  AddContracts([built EXCEPT !.columns = @ \o cols.columns, !.data = @ \o cols.data],
                          spot, registry, c + 1, index)

\* lines 370-373: the subtraction raises TypeError when an operand is None
basis_raises(spot, registry, index) ==
    /\ spot # None
    /\ \E c \in DOMAIN registry : \E k \in DOMAIN index :
          subtract(DictGet(spot[1], index[k]), DictGet(registry[c].df, index[k])) = PyNone

\* lines 353-376, for the index that sorted() returned
build_panel(spot, registry, index) ==
    IF basis_raises(spot, registry, index)
    THEN [raised |-> "TypeError", index |-> <<>>, columns |-> <<>>, data |-> <<>>]
    ELSE AddContracts(
             IF spot # None
             THEN [raised |-> "", index |-> index, columns |-> <<"spot_price">>,
                   data |-> << [k \in DOMAIN index |-> DictGet(spot[1], index[k])] >>]
             ELSE [raised |-> "", index |-> index, columns |-> <<>>, data |-> <<>>],
             spot, registry, 1, index)

\* the panels get_unified_panel can return on the gateway state (spot,
\* registry): spot is the slot after the alignment of line 341
unified_panels(spot, registry) ==
    IF all_dates(spot, registry) = {}
    THEN {[raised |-> "", index |-> <<>>, columns |-> <<>>, data |-> <<>>]}
    ELSE {build_panel(spot, registry, index) : index \in sorted(all_dates(spot, registry))}

(***************************************************************************)
(* The gateway after construction (__init__, lines 40-45).                 *)
(***************************************************************************)
EmptyCache == <<>>
EmptyPanel == [raised |-> "", index |-> <<>>, columns |-> <<>>, data |-> <<>>]

Constructed ==
    /\ spot_data = None
    /\ futures_data = <<>>
    /\ field_mapping_cache = EmptyCache
    /\ scanned_spot = None
    /\ panel = EmptyPanel

gateway == <<spot_data, futures_data, field_mapping_cache, scanned_spot, panel>>

(***************************************************************************)
(* Raw tables.  A schema lists the column names of a file and what each    *)
(* column holds; the open-interest and volume cells of row i are 100 and   *)
(* 200 plus marks[i].                                                      *)
(***************************************************************************)
RawDateCells == {Str(d) : d \in Dates} \cup {Text}
RawPriceCells == {Num(10), Num(12), NaN}

RawTable(schema, dates, prices, marks) ==
    DataFrame(schema.columns,
              [c \in DOMAIN schema.columns |->
                  CASE schema.holds[c] = "date"   -> dates
                    [] schema.holds[c] = "price"  -> prices
                    [] schema.holds[c] = "oi"     -> [i \in DOMAIN dates |-> Num(100 + marks[i])]
                    [] schema.holds[c] = "volume" -> [i \in DOMAIN dates |-> Num(200 + marks[i])]
                    [] OTHER                      -> [i \in DOMAIN dates |-> Text]])

\* schemas whose tables normalize, and the kind they are normalized as
NormSchemas ==
    { [columns |-> <<"date", "spot_price">>, holds |-> <<"date", "price">>, data_type |-> "spot"],
      [columns |-> <<"riqi", "shoupanjia", "chicangliang">>,
       holds |-> <<"date", "price", "oi">>, data_type |-> "futures"],
      [columns |-> <<"Close", "Volume", " Date", "OI">>,
       holds |-> <<"price", "volume", "date", "oi">>, data_type |-> "futures"] }

\* schemas for which the normalizer raises: no date column, no price column
RaisingSchemas ==
    { [columns |-> <<"close", "oi">>, holds |-> <<"price", "oi">>, data_type |-> "futures"],
      [columns |-> <<"date", "memo">>, holds |-> <<"date", "memo">>, data_type |-> "spot"] }

(***************************************************************************)
(* SpecNorm: _normalize_dataframe applied to a raw table, and once more to *)
(* the series it returned, with the same kind.                             *)
(***************************************************************************)
InitNorm ==
    /\ Constructed
    /\ written = {}
    /\ pc = "normalize"
    /\ ret = <<>>
    /\ \E schema \in NormSchemas \cup RaisingSchemas, n \in 1..MaxRows :
         \E dates \in [1..n -> RawDateCells], prices \in [1..n -> RawPriceCells] :
            /\ schema \in RaisingSchemas => n = 1
            /\ arg = [df |-> RawTable(schema, dates, prices, [i \in 1..n |-> i]), data_type |-> schema.data_type,
                      dates |-> dates, prices |-> prices]

Normalize ==
    /\ pc = "normalize"
    /\ LET r == normalize_dataframe(field_mapping_cache, arg.df, arg.data_type)
       IN  /\ ret' = <<r>>
           /\ field_mapping_cache' = r.cache
    /\ pc' = "normalized"
    /\ UNCHANGED <<spot_data, futures_data, scanned_spot, panel, arg, written>>

NormalizeAgain ==
    /\ pc = "normalized"
    /\ ret[1].raised = ""
    /\ LET r == normalize_dataframe(field_mapping_cache, ret[1].ret, arg.data_type)
       IN  /\ ret' = Append(ret, r)
           /\ field_mapping_cache' = r.cache
    /\ pc' = "normalized_twice"
    /\ UNCHANGED <<spot_data, futures_data, scanned_spot, panel, arg, written>>

NextNorm == Normalize \/ NormalizeAgain

SpecNorm == InitNorm /\ [][NextNorm]_vars

(***************************************************************************)
(* Claims about _normalize_dataframe (SpecNorm).  The raw date and price   *)
(* cells of the table are arg.dates and arg.prices; the returned series is *)
(* ret[1].ret.                                                             *)
(***************************************************************************)
Returned == pc \in {"normalized", "normalized_twice"} /\ ret[1].raised = ""
ReturnedDates == Column(ret[1].ret, "date")
ReturnedPrices == Column(ret[1].ret, "price")

\* a date is before another: both are calendar dates and the days compare
DateLess(a, b) == a[1] = "ts" /\ b[1] = "ts" /\ a[2] < b[2]
StrictlyIncreasing(dates) ==
    \A i, j \in DOMAIN dates : i < j => DateLess(dates[i], dates[j])

SourceRowsOfDay(d) == {i \in DOMAIN arg.dates : arg.dates[i] = Str(d)}
UnreadableSourceRows == {i \in DOMAIN arg.dates : arg.dates[i] = Text}
FirstPriceOfDay(d) == arg.prices[Min(SourceRowsOfDay(d))]
ReturnedRowsOfDay(d) == {k \in DOMAIN ReturnedDates : ReturnedDates[k] = Ts(d)}

\* the price the source holds for the returned row k: that of the first
\* source row carrying its date
SourcePriceOfReturnedRow(k) ==
    IF ReturnedDates[k][1] = "ts"
    THEN FirstPriceOfDay(ReturnedDates[k][2])
    ELSE arg.prices[Min(UnreadableSourceRows)]

\* C6: the returned series has columns of equal length and its dates are
\* unique and strictly increasing in row order, for every table that
\* normalizes (unreadable and duplicated date cells included).
C6_NormalizedSeriesInvariant ==
    Returned =>
        /\ \A c \in DOMAIN ret[1].ret.data :
              Len(ret[1].ret.data[c]) = Len(ReturnedDates)
        /\ \A i, j \in DOMAIN ReturnedDates : i # j => ReturnedDates[i] # ReturnedDates[j]
        /\ StrictlyIncreasing(ReturnedDates)

\* the rows dated before row k whose source price is known
KnownEarlierRows(k) ==
    {j \in DOMAIN ReturnedDates :
        /\ DateLess(ReturnedDates[j], ReturnedDates[k])
        /\ notna(SourcePriceOfReturnedRow(j))}

NearestEarlierKnownRow(k) ==
    CHOOSE j \in KnownEarlierRows(k) :
        \A i \in KnownEarlierRows(k) : i = j \/ DateLess(ReturnedDates[i], ReturnedDates[j])

ForwardFilled(k) ==
    IF notna(SourcePriceOfReturnedRow(k)) THEN ReturnedPrices[k] = SourcePriceOfReturnedRow(k)
    ELSE IF KnownEarlierRows(k) = {} THEN isna(ReturnedPrices[k])
    ELSE ReturnedPrices[k] = SourcePriceOfReturnedRow(NearestEarlierKnownRow(k))

\* C7: the rows of the returned series are in ascending date order and a
\* row whose price was absent takes the price of the nearest earlier-dated
\* row with a known price; rows before the first known price stay absent.
C7_ForwardFill ==
    Returned =>
        /\ StrictlyIncreasing(ReturnedDates)
        /\ \A k \in DOMAIN ReturnedDates : ForwardFilled(k)
        /\ \A k, j \in DOMAIN ReturnedDates :
              j <= k /\ notna(ReturnedPrices[j]) => notna(ReturnedPrices[k])

\* what C7 says, on the tables whose date cells are all readable
ForwardFillOfReadableTables ==
    Returned /\ UnreadableSourceRows = {} =>
        /\ StrictlyIncreasing(ReturnedDates)
        /\ \A k \in DOMAIN ReturnedDates : ForwardFilled(k)

\* C8 as stated: a date carried by two or more source rows has exactly one
\* returned row, whose price is the price of the first source row of that
\* date, whatever that price is (absent included).
C8_DeduplicationKeepsFirstPrice ==
    Returned =>
        \A d \in Dates :
            Cardinality(SourceRowsOfDay(d)) >= 2 =>
                /\ Cardinality(ReturnedRowsOfDay(d)) = 1
                /\ \A k \in ReturnedRowsOfDay(d) : ReturnedPrices[k] = FirstPriceOfDay(d)

\* the price of the first source row of day d, forward-filled over the days
FilledPriceOfDay(d) ==
    LET known == {e \in Dates : e < d /\ SourceRowsOfDay(e) # {} /\ notna(FirstPriceOfDay(e))}
    IN  IF notna(FirstPriceOfDay(d)) THEN FirstPriceOfDay(d)
        ELSE IF known = {} THEN NaN
        ELSE FirstPriceOfDay(Max(known))

\* C8 amended: a date carried by two or more source rows has exactly one
\* returned row; its price is the first source row's price when that is
\* present, and otherwise the first-row price of the nearest earlier date
\* whose first row has a price (absent when there is none).  The later rows
\* of the date contribute nothing.
C8_DeduplicationThenForwardFill ==
    Returned =>
        \A d \in Dates :
            Cardinality(SourceRowsOfDay(d)) >= 2 =>
                /\ Cardinality(ReturnedRowsOfDay(d)) = 1
                /\ \A k \in ReturnedRowsOfDay(d) : ReturnedPrices[k] = FilledPriceOfDay(d)

\* a duplicated date whose first row has no price and whose later row has
\* one, after an earlier date with a price
C8_Witness ==
    /\ Returned
    /\ \E d \in Dates :
          /\ Cardinality(SourceRowsOfDay(d)) >= 2
          /\ isna(FirstPriceOfDay(d))
          /\ \E i \in SourceRowsOfDay(d) : notna(arg.prices[i])
          /\ \E k \in ReturnedRowsOfDay(d) :
                notna(ReturnedPrices[k]) /\ ReturnedPrices[k] = FilledPriceOfDay(d)

\* C9: normalizing a returned series again, with the same kind, returns a
\* series with the same columns, dates, prices and oi/volume cells.
C9_NormalizationIdempotent ==
    pc = "normalized_twice" => ret[2].raised = "" /\ ret[2].ret = ret[1].ret

\* a second call on the series of a table that the first call had to
\* deduplicate, reorder and fill
C9_Witness ==
    /\ pc = "normalized_twice"
    /\ ret[2].ret = ret[1].ret
    /\ Len(ReturnedDates) < Len(arg.dates)
    /\ \E i, j \in DOMAIN arg.dates :
          i < j /\ arg.dates[i][1] = "str" /\ arg.dates[j][1] = "str" /\ arg.dates[j][2] < arg.dates[i][2]
    /\ \E k \in DOMAIN ReturnedDates :
          isna(SourcePriceOfReturnedRow(k)) /\ notna(ReturnedPrices[k])
    /\ arg.data_type = "futures"

(***************************************************************************)
(* _extract_contract_code() and the body of scan_and_load's loop for one   *)
(* file that was read into a non-empty table.                              *)
(***************************************************************************)
\* re.search(r'([a-z]+)(\d{4})', s) matches at position i with the letters
\* ending at position e
CodeMatchesAt(s, i, e) ==
    /\ e + 4 <= Len(s)
    /\ \A j \in i..e : CharIn(CharAt(s, j), LowerAlphabet)
    /\ \A j \in (e + 1)..(e + 4) : CharIn(CharAt(s, j), DigitChars)

\* Path(filename).stem
stem(filename) ==
    LET dots == {i \in 2..Len(filename) : CharAt(filename, i) = "."}
    IN  IF dots = {} THEN filename ELSE SubSeq(filename, 1, Max(dots) - 1)

\* a cell holding the k-th text of LabelTexts, or the empty string for k = 0
LabelTexts == <<"cu2305", "al2401">>
Label(k) == <<"label", k>>

\* the Python value of a cell that is a str
CellText(c) ==
    CASE c[1] = "label" -> (IF c[2] = 0 THEN "" ELSE LabelTexts[c[2]])
      [] c[1] = "str"   -> "2024-01-0" \o CharAt(DigitChars, c[2] + 1)
      [] OTHER          -> "n/a"

\* line 278: first_value and isinstance(first_value, str)
is_nonempty_str(c) == c[1] \in {"label", "str", "text"} /\ CellText(c) # ""

\* line 276: '合约' in col or 'contract' in col.lower()  (合约 is written heyue)
is_contract_column(col) == re_search("heyue", col) \/ re_search("contract", lower(col))

\* lines 275-280: the columns, in order, whose first cell is returned
contract_cells(df) ==
    {c \in DOMAIN df.columns :
        /\ is_contract_column(df.columns[c])
        /\ Len(df.data[c]) > 0
        /\ is_nonempty_str(df.data[c][1])}

\* the filename's match comes before the table's contract column
extract_contract_code_column_first(filename, df) ==
    LET low == lower(filename)
        starts == {i \in 1..Len(low) : \E e \in i..Len(low) : CodeMatchesAt(low, i, e)}
    IN  IF contract_cells(df) # {} THEN CellText(df.data[Min(contract_cells(df))][1])
        ELSE IF starts # {}
        THEN LET i == Min(starts)
                 e == CHOOSE e \in i..Len(low) : CodeMatchesAt(low, i, e)
             IN  SubSeq(low, i, e + 4)
        ELSE stem(filename)

\* lines 268-282
extract_contract_code(filename, df) ==
    LET low == lower(filename)
        starts == {i \in 1..Len(low) : \E e \in i..Len(low) : CodeMatchesAt(low, i, e)}
    IN  IF starts # {}
        THEN LET i == Min(starts)
                 e == CHOOSE e \in i..Len(low) : CodeMatchesAt(low, i, e)
             IN  SubSeq(low, i, e + 4)
        ELSE IF contract_cells(df) # {} THEN CellText(df.data[Min(contract_cells(df))][1])
        ELSE stem(filename)

\* a held code keeps the series it has
RegistryPutKeepingFirst(registry, code, df) ==
    IF \E c \in DOMAIN registry : registry[c].code = code
    THEN registry
    ELSE Append(registry, [code |-> code, df |-> df])

\* self.futures_data[contract_code] = normalized_df: a held code keeps its
\* place, a new one goes last
RegistryPut(registry, code, df) ==
    IF \E c \in DOMAIN registry : registry[c].code = code
    THEN [c \in DOMAIN registry |->
             IF registry[c].code = code THEN [code |-> code, df |-> df] ELSE registry[c]]
    ELSE Append(registry, [code |-> code, df |-> df])

\* lines 101-121: the file is classified, normalized as its kind and
\* stored; a file of unknown kind, or one the normalizer raises on, changes
\* only the cache
scan_file(filename, df) ==
    \E classified \in {detect_data_type(field_mapping_cache, df)} :
       \E normalized \in {IF classified.ret = "None"
                          THEN [raised |-> "", ret |-> EmptyFrame, cache |-> classified.cache]
                          ELSE normalize_dataframe(classified.cache, df, classified.ret)} :
          /\ spot_data' = IF classified.ret = "spot" /\ normalized.raised = ""
                          THEN Some(normalized.ret) ELSE spot_data
          /\ futures_data' = IF classified.ret = "futures" /\ normalized.raised = ""
                             THEN RegistryPut(futures_data, extract_contract_code(filename, df),
                                              normalized.ret)
                             ELSE futures_data
          /\ field_mapping_cache' = normalized.cache

(***************************************************************************)
(* SpecClassify: _detect_data_type applied to a table.  A classifier       *)
(* schema records, beside the column names, what the table is meant to     *)
(* show: an open-interest column, a volume column, a spot-price column, a  *)
(* mappable date column.  ("point" holds the letters "oi", which is all    *)
(* the open-interest pattern asks for.)                                    *)
(***************************************************************************)
ClassifySchemas ==
    { [columns |-> <<"date", "close", "oi">>, holds |-> <<"date", "price", "oi">>,
       oi |-> TRUE, volume |-> FALSE, spot |-> FALSE, date |-> TRUE],
      [columns |-> <<"riqi", "shoupanjia", "chicangliang">>, holds |-> <<"date", "price", "oi">>,
       oi |-> TRUE, volume |-> FALSE, spot |-> FALSE, date |-> TRUE],
      [columns |-> <<"date", "spot_price", "OI">>, holds |-> <<"date", "price", "oi">>,
       oi |-> TRUE, volume |-> FALSE, spot |-> TRUE, date |-> TRUE],
      [columns |-> <<"date", "close", "point">>, holds |-> <<"date", "price", "memo">>,
       oi |-> TRUE, volume |-> FALSE, spot |-> FALSE, date |-> TRUE],
      [columns |-> <<"Close", "Volume", " Date", "OI">>, holds |-> <<"price", "volume", "date", "oi">>,
       oi |-> TRUE, volume |-> TRUE, spot |-> FALSE, date |-> TRUE],
      [columns |-> <<"date", "close", "volume">>, holds |-> <<"date", "price", "volume">>,
       oi |-> FALSE, volume |-> TRUE, spot |-> FALSE, date |-> TRUE],
      [columns |-> <<"close", "volume">>, holds |-> <<"price", "volume">>,
       oi |-> FALSE, volume |-> TRUE, spot |-> FALSE, date |-> FALSE],
      [columns |-> <<"date", "spot_price", "volume">>, holds |-> <<"date", "price", "volume">>,
       oi |-> FALSE, volume |-> TRUE, spot |-> TRUE, date |-> TRUE],
      [columns |-> <<"date", "spot_price">>, holds |-> <<"date", "price">>,
       oi |-> FALSE, volume |-> FALSE, spot |-> TRUE, date |-> TRUE],
      [columns |-> <<"xianhuojiage", "memo">>, holds |-> <<"price", "memo">>,
       oi |-> FALSE, volume |-> FALSE, spot |-> TRUE, date |-> FALSE],
      [columns |-> <<"date", "close">>, holds |-> <<"date", "price">>,
       oi |-> FALSE, volume |-> FALSE, spot |-> FALSE, date |-> TRUE],
      [columns |-> <<"close", "memo">>, holds |-> <<"price", "memo">>,
       oi |-> FALSE, volume |-> FALSE, spot |-> FALSE, date |-> FALSE] }

\* row counts and date spans on both sides of the classifier's thresholds
RowCounts == {1, 2, SpotRowLimit, SpotRowLimit + 1}
Spans == {0, FuturesSpanLimit - 1, FuturesSpanLimit, FuturesSpanLimit + 1}

\* n date cells spanning `span` days from day `first` on, or n unreadable
\* cells
SpanningDatesFrom(first, n, span, readable) ==
    [i \in 1..n |-> IF ~readable THEN Text
                    ELSE IF i = n /\ n > 1 THEN Str(first + span) ELSE Str(first)]

SpanningDates(n, span, readable) == SpanningDatesFrom(1, n, span, readable)

\* the first day of the classified table: the same span is drawn at two
\* places of the calendar, with different prices
FirstDays == {1, FuturesSpanLimit + 1}
PricesFrom(first, n) == [i \in 1..n |-> IF first = 1 THEN Num(10) ELSE Num(12)]

InitClassify ==
    /\ Constructed
    /\ written = {}
    /\ pc = "classify"
    /\ ret = <<>>
    /\ \E schema \in ClassifySchemas, n \in RowCounts, span \in Spans, readable \in BOOLEAN,
          first \in FirstDays :
          /\ n = 1 => span = 0
          /\ arg = [df |-> RawTable(schema, SpanningDatesFrom(first, n, span, readable),
                                    PricesFrom(first, n), [i \in 1..n |-> 0]),
                    oi |-> schema.oi, volume |-> schema.volume, spot |-> schema.spot,
                    date |-> schema.date, nrows |-> n, span |-> span, readable |-> readable,
                    first |-> first]

\* files the gateway processed before the classified table came: a spot
\* file and a futures file recognized by its volume column, each of one row
\* and with the column list of a classified schema
EarlierTable(columns, holds) ==
    RawTable([columns |-> columns, holds |-> holds], <<Str(1)>>, <<Num(10)>>, <<0>>)
EarlierSpotFile == EarlierTable(<<"date", "spot_price">>, <<"date", "price">>)
EarlierFuturesFile == EarlierTable(<<"date", "close", "volume">>, <<"date", "price", "volume">>)

\* lines 101-114 for a file that came before
ProcessEarlierFile ==
    /\ pc = "classify"
    /\ \/ spot_data = None /\ scan_file("spot.csv", EarlierSpotFile)
       \/ futures_data = <<>> /\ scan_file("cu2301.csv", EarlierFuturesFile)
    /\ scanned_spot' = spot_data'
    /\ UNCHANGED <<pc, panel, arg, ret, written>>

Classify ==
    /\ pc = "classify"
    /\ LET r == detect_data_type(field_mapping_cache, arg.df)
       IN  /\ ret' = <<r>>
           /\ field_mapping_cache' = r.cache
    /\ pc' = "classified"
    /\ UNCHANGED <<spot_data, futures_data, scanned_spot, panel, arg, written>>

NextClassify == ProcessEarlierFile \/ Classify

SpecClassify == InitClassify /\ [][NextClassify]_vars

\* the table has a date span: a date column is mappable and holds dates
SpanKnown == arg.date /\ arg.readable

\* the ordered rules, first match wins
RuleResult ==
    IF arg.oi THEN "futures"
    ELSE IF arg.volume /\ ~arg.spot /\ SpanKnown /\ arg.span < 1000 THEN "futures"
    ELSE IF arg.spot /\ ~arg.oi THEN "spot"
    ELSE IF ~arg.oi /\ arg.nrows > 100 /\ SpanKnown /\ arg.span > 1000 THEN "spot"
    ELSE "None"

\* C10: _detect_data_type returns what the ordered rules give: open
\* interest -> futures; else volume, no spot-price column and span < 1000
\* days -> futures; else spot-price column and no open interest -> spot;
\* else no open interest, more than 100 rows and span > 1000 days -> spot;
\* otherwise unknown.
C10_ClassifierRules == pc = "classified" => ret[1].ret = RuleResult

\* a volume table of exactly 1000 days and more than 100 rows: neither the
\* futures rule nor the spot rule applies
C10_Witness ==
    /\ pc = "classified"
    /\ arg.volume /\ ~arg.spot /\ ~arg.oi /\ SpanKnown
    /\ arg.span = 1000 /\ arg.nrows > 100
    /\ ret[1].ret = "None"

(***************************************************************************)
(* SpecPanel: the scan loads at most one spot file, found first, and up to *)
(* MaxContracts one-row futures files named after distinct contract codes; *)
(* get_unified_panel is then called once.  The gateway states reached do   *)
(* not depend on where in the scan the spot file is found.                 *)
(***************************************************************************)
SpotSchema ==
    [columns |-> <<"date", "spot_price">>, holds |-> <<"date", "price">>, data_type |-> "spot"]
FuturesSchema ==
    [columns |-> <<"date", "close", "oi">>, holds |-> <<"date", "price", "oi">>,
     data_type |-> "futures"]

RawFuturesPriceCells == {Num(7), NaN}

TablesOf(schema, max_rows, price_cells) ==
    UNION { { RawTable(schema, dates, prices, [i \in 1..n |-> 0]) :
                dates \in [1..n -> RawDateCells], prices \in [1..n -> price_cells] } :
            n \in 1..max_rows }

SpotFiles == TablesOf(SpotSchema, MaxSpotRows, RawPriceCells)
FuturesFiles == TablesOf(FuturesSchema, 1, RawFuturesPriceCells)

SpotFileName == "spot.csv"
\* the name of the c-th futures file found: cu2301.csv, cu2302.csv, ...
FuturesFileName(c) == "cu230" \o CharAt(DigitChars, c + 1) \o ".csv"

InitPanel ==
    /\ pc = "scan"
    /\ arg = <<>>
    /\ ret = <<>>
    /\ Constructed
    /\ written = {}

ScanSpotFile ==
    /\ pc = "scan"
    /\ spot_data = None
    /\ futures_data = <<>>
    /\ \E df \in SpotFiles : scan_file(SpotFileName, df)
    /\ scanned_spot' = spot_data'
    /\ UNCHANGED <<pc, panel, arg, ret, written>>

ScanFuturesFile ==
    /\ pc = "scan"
    /\ Len(futures_data) < MaxContracts
    /\ \E df \in FuturesFiles : scan_file(FuturesFileName(Len(futures_data) + 1), df)
    /\ UNCHANGED <<pc, scanned_spot, panel, arg, ret, written>>

GetUnifiedPanel ==
    /\ pc \in {"scan", "scan_returned"}
    /\ spot_data' = align_to_futures_trading_days(spot_data, futures_data)
    /\ panel' \in unified_panels(spot_data', futures_data)
    /\ pc' = "panel"
    /\ UNCHANGED <<futures_data, field_mapping_cache, scanned_spot, arg, ret, written>>

NextPanel == ScanSpotFile \/ ScanFuturesFile \/ GetUnifiedPanel

SpecPanel == InitPanel /\ [][NextPanel]_vars

(***************************************************************************)
(* Claims about _align_to_futures_trading_days and get_unified_panel       *)
(* (SpecPanel).  scanned_spot is the spot series as normalized from its    *)
(* file, spot_data the slot as get_unified_panel left it.                  *)
(***************************************************************************)
PanelReturned == pc = "panel" /\ panel.raised = ""

ContractDates(c) == Column(futures_data[c].df, "date")
ContractDateCells == UNION {Range(ContractDates(c)) : c \in DOMAIN futures_data}

\* the futures-union calendar: the days on which some contract has a row
FuturesCalendar == {d \in Dates : Ts(d) \in ContractDateCells}

\* the alignment ran: a spot series and at least one dated futures row
AlignmentRan == pc = "panel" /\ scanned_spot # None /\ FuturesCalendar # {}

ScannedSpotDates == Column(scanned_spot[1], "date")
ScannedSpotPrices == Column(scanned_spot[1], "price")
ScannedSpotDays == {d \in Dates : Ts(d) \in Range(ScannedSpotDates)}
ScannedSpotPriceOn(d) ==
    ScannedSpotPrices[CHOOSE i \in DOMAIN ScannedSpotDates : ScannedSpotDates[i] = Ts(d)]

AlignedDates == Column(spot_data[1], "date")
AlignedRowsOn(d) == {k \in DOMAIN AlignedDates : AlignedDates[k] = Ts(d)}
AlignedPriceOn(d) == Column(spot_data[1], "price")[CHOOSE k \in AlignedRowsOn(d) : TRUE]

\* C1: after the alignment, if the normalized spot series holds any
\* observation, the realigned spot price is present on every day of the
\* futures-union calendar.
C1_AlignmentCoverage ==
    AlignmentRan /\ Len(ScannedSpotDates) >= 1 =>
        \A d \in FuturesCalendar : AlignedRowsOn(d) # {} /\ notna(AlignedPriceOn(d))

\* C2: on a calendar day without a spot observation of its own, if the spot
\* series has an observation dated before that day, the realigned price is
\* the price of the most recent such observation.
C2_CarryForward ==
    AlignmentRan =>
        \A d \in FuturesCalendar :
            LET earlier == {e \in ScannedSpotDays : e < d}
            IN  d \notin ScannedSpotDays /\ earlier # {} =>
                    /\ AlignedRowsOn(d) # {}
                    /\ AlignedPriceOn(d) = ScannedSpotPriceOn(Max(earlier))

HasPanelColumn(name) == \E c \in DOMAIN panel.columns : panel.columns[c] = name
\* the cell of a panel column at index position k; absent when the panel
\* has no such column
PanelCell(name, k) ==
    IF HasPanelColumn(name)
    THEN panel.data[CHOOSE c \in DOMAIN panel.columns : panel.columns[c] = name][k]
    ELSE NaN

BasisIdentityAt(code, k) ==
    LET spot == PanelCell("spot_price", k)
        futures == PanelCell("futures_" \o code, k)
        basis == PanelCell("basis_" \o code, k)
    IN  /\ notna(spot) /\ notna(futures) => basis = Num(spot[2] - futures[2])
        /\ isna(spot) \/ isna(futures) => isna(basis)

\* C3: in a returned panel, for every index date and contract, the basis is
\* spot minus futures where both are present and absent where either is
\* absent.
C3_PanelBasisIdentity ==
    PanelReturned =>
        \A c \in DOMAIN futures_data : \A k \in DOMAIN panel.index :
            BasisIdentityAt(futures_data[c].code, k)

\* a panel with a contract whose basis is computed on one date and absent
\* on another
C3_Witness ==
    /\ PanelReturned
    /\ \E c \in DOMAIN futures_data : \E k, j \in DOMAIN panel.index :
          /\ notna(PanelCell("spot_price", k))
          /\ notna(PanelCell("futures_" \o futures_data[c].code, k))
          /\ notna(PanelCell("basis_" \o futures_data[c].code, k))
          /\ notna(PanelCell("spot_price", j))
          /\ isna(PanelCell("futures_" \o futures_data[c].code, j))
          /\ isna(PanelCell("basis_" \o futures_data[c].code, j))

NoDuplicates(seq) == \A i, j \in DOMAIN seq : i # j => seq[i] # seq[j]

\* the date cells of every series as the scan loaded it
ScannedDateCells ==
    (IF scanned_spot = None THEN {} ELSE Range(ScannedSpotDates)) \cup ContractDateCells

\* C4 as stated: the index of a returned panel is strictly increasing, has
\* no duplicates and equals the union of the dates of the spot series as
\* normalized from its file and of every contract series.
C4_PanelIndexIsUnionOfInputs ==
    PanelReturned =>
        /\ StrictlyIncreasing(panel.index)
        /\ NoDuplicates(panel.index)
        /\ Range(panel.index) = ScannedDateCells

\* the date cells of the spot series once realigned: the futures calendar
\* when the alignment ran, the spot series' own cells otherwise
RealignedSpotDateCells ==
    IF scanned_spot = None THEN {}
    ELSE IF FuturesCalendar # {} THEN {Ts(d) : d \in FuturesCalendar}
    ELSE Range(ScannedSpotDates)

\* C4, what the code keeps of it: the index of a returned panel has no
\* duplicates and equals the union of the dates of every contract series
\* and of the spot series as realigned to the futures calendar (spot dates
\* off that calendar are not in it once the alignment ran); it is strictly
\* increasing on the runs where no undated (NaT) row reached it.
C4_PanelIndexIsUnionOfAligned ==
    PanelReturned =>
        /\ NoDuplicates(panel.index)
        /\ Range(panel.index) = RealignedSpotDateCells \cup ContractDateCells
        /\ NaT \notin Range(panel.index) => StrictlyIncreasing(panel.index)

\* C4, the failing case: no contract is loaded, the index is the union of
\* the dates of the spot series as normalized from its file, and one of
\* them is the undated row the normalizer kept, so the index is not
\* strictly increasing
C4_UndatedIndex ==
    /\ PanelReturned
    /\ futures_data = <<>>
    /\ Range(panel.index) = ScannedDateCells
    /\ NaT \in Range(panel.index)
    /\ Len(panel.index) = 2
    /\ ~StrictlyIncreasing(panel.index)

\* a panel of two or more dates, built after an alignment that dropped a
\* spot date
C4_Witness ==
    /\ PanelReturned
    /\ AlignmentRan
    /\ Len(panel.index) >= 2
    /\ NaT \notin Range(panel.index)
    /\ \E d \in ScannedSpotDays : Ts(d) \notin Range(panel.index)

\* C5 as stated: a returned panel holds futures_<id> and basis_<id> for
\* every contract identifier of the registry.
C5_PanelColumnsPerContract ==
    PanelReturned =>
        \A c \in DOMAIN futures_data :
            /\ HasPanelColumn("futures_" \o futures_data[c].code)
            /\ HasPanelColumn("basis_" \o futures_data[c].code)

\* C5, what the code keeps of it: a returned panel holds futures_<id> for
\* every contract identifier of the registry, and holds basis_<id> exactly
\* when the spot slot is not empty.
C5_PanelColumnsPerContractWithSpot ==
    PanelReturned =>
        \A c \in DOMAIN futures_data :
            /\ HasPanelColumn("futures_" \o futures_data[c].code)
            /\ HasPanelColumn("basis_" \o futures_data[c].code) <=> scanned_spot # None

\* the panel of a directory that holds the single futures file cu2301
C5_Witness ==
    /\ PanelReturned
    /\ scanned_spot = None
    /\ Len(futures_data) = 1
    /\ futures_data[1].code = "cu2301"
    /\ panel.columns = <<"futures_cu2301">>

(***************************************************************************)
(* SpecCode: _extract_contract_code applied to a file name and a table of  *)
(* at most one row.                                                        *)
(***************************************************************************)
CodeFileNames ==
    {"cu2301.csv", "CU2302.csv", "Cu23015.csv", "ab12cd3456.csv", "cu230.csv",
     "data.csv", "a.b.csv", "12345.csv"}

CodeColumns ==
    {<<"date", "close", "oi">>, <<"Contract", "close">>, <<"date", "heyue", "contract_id">>,
     <<"symbol", "CONTRACT ">>}

CodeCells == {Label(0), Label(1), Label(2), NaN, Num(5)}

InitCode ==
    /\ Constructed
    /\ written = {}
    /\ pc = "extract"
    /\ ret = <<>>
    /\ \E filename \in CodeFileNames, columns \in CodeColumns, n \in 0..1 :
          \E cells \in [DOMAIN columns -> CodeCells] :
             arg = [filename |-> filename,
                    df |-> DataFrame(columns, [c \in DOMAIN columns |->
                                                  [i \in 1..n |-> cells[c]]])]

ExtractContractCode ==
    /\ pc = "extract"
    /\ ret' = <<extract_contract_code(arg.filename, arg.df)>>
    /\ pc' = "extracted"
    /\ UNCHANGED <<spot_data, futures_data, field_mapping_cache, scanned_spot, panel, arg, written>>

NextCode == ExtractContractCode

SpecCode == InitCode /\ [][NextCode]_vars

\* the text s[i..j] is one or more lowercase letters followed by 4 digits
IsLettersThenFourDigits(s, i, j) ==
    /\ i + 4 <= j /\ j <= Len(s)
    /\ \A k \in i..(j - 4) : CharIn(CharAt(s, k), LowerAlphabet)
    /\ \A k \in (j - 3)..j : CharIn(CharAt(s, k), DigitChars)

FilenameMatches(s) ==
    {m \in (1..Len(s)) \X (1..Len(s)) : IsLettersThenFourDigits(s, m[1], m[2])}

\* the leftmost match; of the matches starting there only one exists, the
\* letters being followed at once by the digits
FirstFilenameMatch(s) ==
    LET m == CHOOSE m \in FilenameMatches(s) : \A o \in FilenameMatches(s) : m[1] <= o[1]
    IN  SubSeq(s, m[1], m[2])

\* the columns named as holding a contract, by the names in `needles`, whose
\* first cell is a non-empty string
NamedContractColumns(df, needles) ==
    {c \in DOMAIN df.columns :
        /\ \E n \in needles : re_search(n, lower(df.columns[c]))
        /\ Len(df.data[c]) > 0
        /\ df.data[c][1][1] = "label" /\ df.data[c][1][2] # 0}

IdentificationOrder(needles) ==
    pc = "extracted" =>
        LET low == lower(arg.filename)
            named == NamedContractColumns(arg.df, needles)
        IN  ret[1] = IF FilenameMatches(low) # {} THEN FirstFilenameMatch(low)
                     ELSE IF named # {} THEN LabelTexts[arg.df.data[Min(named)][1][2]]
                     ELSE stem(arg.filename)

\* C17 as stated: the contract code is the first letters-then-4-digits match
\* of the lower-cased filename; otherwise the first cell of the first column
\* whose name contains 'contract' and whose first cell is a non-empty
\* string; otherwise the filename without extension.
C17_ContractIdentificationOrder == IdentificationOrder({"contract"})

\* C17 amended: the same order, a contract column being one whose name
\* contains 'contract' (case-insensitive) or '合约'.
C17_ContractIdentificationOrderWithSynonym == IdentificationOrder({"contract", "heyue"})

\* a file name without a match, the code taken from the second contract
\* column because the first one's first cell is not a string
C17_Witness ==
    /\ pc = "extracted"
    /\ arg.filename = "data.csv"
    /\ arg.df.columns = <<"date", "heyue", "contract_id">>
    /\ Len(arg.df.data[1]) = 1
    /\ arg.df.data[2][1] = NaN
    /\ arg.df.data[3][1] = Label(2)
    /\ ret[1] = "al2401"

(***************************************************************************)
(* scan_and_load().  A directory is [exists, csv_files]; a file is         *)
(* [name, reads], reads[k] being what pd.read_csv gives with the k-th      *)
(* encoding: None when it raises, Some(table) otherwise.  The statistics   *)
(* are [spot_count, futures_count, errors], an error being [file, message].*)
(***************************************************************************)
\* line 86
encodings == <<"utf-8-sig", "utf-8", "gbk", "gb2312", "gb18030">>

\* lines 85-99: the first table read that has rows; None when no encoding
\* gives one
read_table(file) ==
    LET good == {k \in DOMAIN encodings : file.reads[k] # None /\ len(file.reads[k][1]) > 0}
    IN  IF good = {} THEN None ELSE file.reads[Min(good)]

\* line 62
NewStats == [spot_count |-> 0, futures_count |-> 0, errors |-> <<>>]

ErrorEntry(file, message) == [file |-> file.name, message |-> message]

\* a failed normalization is counted as a loaded futures file
store_file_counting_failures(g, file, df, data_type, normalized) ==
    IF normalized.raised # ""
    THEN [g EXCEPT !.cache = normalized.cache,
                   !.stats.errors = Append(@, ErrorEntry(file, normalized.raised)),
                   !.stats.futures_count = @ + 1]
    ELSE IF data_type = "spot"
    THEN [g EXCEPT !.spot_data = Some(normalized.ret),
                   !.cache = normalized.cache,
                   !.stats.spot_count = @ + 1]
    ELSE [g EXCEPT !.futures_data = RegistryPut(@, extract_contract_code(file.name, df),
                                                normalized.ret),
                   !.cache = normalized.cache,
                   !.stats.futures_count = @ + 1]

\* a spot slot that is taken keeps the series it has
store_file_keeping_first_spot(g, file, df, data_type, normalized) ==
    IF normalized.raised # ""
    THEN [g EXCEPT !.cache = normalized.cache,
                   !.stats.errors = Append(@, ErrorEntry(file, normalized.raised))]
    ELSE IF data_type = "spot"
    THEN [g EXCEPT !.spot_data = IF @ = None THEN Some(normalized.ret) ELSE @,
                   !.cache = normalized.cache,
                   !.stats.spot_count = @ + 1]
    ELSE [g EXCEPT !.futures_data = RegistryPut(@, extract_contract_code(file.name, df),
                                                normalized.ret),
                   !.cache = normalized.cache,
                   !.stats.futures_count = @ + 1]

\* lines 104-121, the table classified and normalized: g is the record of
\* the spot slot, the registry, the cache and the statistics
store_file(g, file, df, data_type, normalized) ==
    IF normalized.raised # ""
    THEN [g EXCEPT !.cache = normalized.cache,
                   !.stats.errors = Append(@, ErrorEntry(file, normalized.raised))]
    ELSE IF data_type = "spot"
    THEN [g EXCEPT !.spot_data = Some(normalized.ret),
                   !.cache = normalized.cache,
                   !.stats.spot_count = @ + 1]
    ELSE [g EXCEPT !.futures_data = RegistryPut(@, extract_contract_code(file.name, df),
                                                normalized.ret),
                   !.cache = normalized.cache,
                   !.stats.futures_count = @ + 1]

\* a table of unknown type passed over without an error entry
classified_file_skipping_unknown(g, file, df, classified) ==
    IF classified.ret = "None"
    THEN [g EXCEPT !.cache = classified.cache]
    ELSE store_file(g, file, df, classified.ret,
                    normalize_dataframe(classified.cache, df, classified.ret))

\* lines 101-117, the table classified
classified_file(g, file, df, classified) ==
    IF classified.ret = "None"
    THEN [g EXCEPT !.cache = classified.cache,
                   !.stats.errors = Append(@, ErrorEntry(file, "unknown data type"))]
    ELSE store_file(g, file, df, classified.ret,
                    normalize_dataframe(classified.cache, df, classified.ret))

\* lines 83-121: one pass of the loop over csv_files
process_file(g, file) ==
    IF read_table(file) = None
    THEN [g EXCEPT !.stats.errors = Append(@, ErrorEntry(file, "empty or unreadable"))]
    ELSE classified_file(g, file, read_table(file)[1],
                         detect_data_type(g.cache, read_table(file)[1]))

\* the scan raises on an empty file list too
scan_raises_without_files(directory) == ~directory.exists \/ directory.csv_files = <<>>

\* lines 64-65
scan_raises(directory) == ~directory.exists

(***************************************************************************)
(* SpecScan: scan_and_load on a fresh gateway over a directory of up to    *)
(* MaxFiles files in any discovery order, then get_unified_panel.          *)
(***************************************************************************)
MaxFiles == 3

ReadAtOnce(df) == [k \in DOMAIN encodings |-> Some(df)]
FuturesTable(day, price) == RawTable(FuturesSchema, <<Str(day)>>, <<Num(price)>>, <<0>>)

\* the files a directory can hold
ScanCatalogue ==
    { [name |-> "spot.csv",
       reads |-> ReadAtOnce(RawTable(SpotSchema, <<Str(1), Str(2)>>, <<Num(10), Num(12)>>,
                                     <<0, 0>>))],
      [name |-> "spot_b.csv",
       reads |-> ReadAtOnce(RawTable(SpotSchema, <<Str(3)>>, <<Num(12)>>, <<0>>))],
      \* a spot file whose dates cannot be read
      [name |-> "spot_undated.csv",
       reads |-> ReadAtOnce(RawTable(SpotSchema, <<Text>>, <<Num(10)>>, <<0>>))],
      \* read with the third encoding only
      [name |-> "cu2301.csv",
       reads |-> <<None, None, Some(FuturesTable(1, 7)), Some(FuturesTable(1, 7)),
                   Some(FuturesTable(1, 7))>>],
      \* a second file of contract cu2301
      [name |-> "CU2301_night.csv", reads |-> ReadAtOnce(FuturesTable(2, 9))],
      [name |-> "al2401.csv", reads |-> ReadAtOnce(FuturesTable(2, 7))],
      \* neither spot nor futures
      [name |-> "notes.csv",
       reads |-> ReadAtOnce(RawTable([columns |-> <<"memo", "close">>,
                                      holds |-> <<"memo", "price">>],
                                     <<Str(1)>>, <<Num(10)>>, <<0>>))],
      \* futures by its open-interest column, without a date column
      [name |-> "broken.csv",
       reads |-> ReadAtOnce(RawTable([columns |-> <<"close", "oi">>,
                                      holds |-> <<"price", "oi">>],
                                     <<Str(1)>>, <<Num(10)>>, <<0>>))],
      \* a header without rows under one encoding, undecodable under the others
      [name |-> "empty.csv",
       reads |-> <<None, Some(DataFrame(<<"date", "close">>, <<<<>>, <<>>>>)), None, None,
                   None>>] }

NoRepeats(seq) == \A i, j \in DOMAIN seq : i # j => seq[i] # seq[j]

Directories ==
    {[exists |-> FALSE, csv_files |-> <<>>]}
    \cup UNION { {[exists |-> TRUE, csv_files |-> files] :
                    files \in {f \in [1..n -> ScanCatalogue] : NoRepeats(f)}} :
                 n \in 0..MaxFiles }

InitScan ==
    /\ Constructed
    /\ written = {}
    /\ pc = "scan_call"
    /\ arg \in Directories
    /\ ret = [raised |-> "", stats |-> NewStats, done |-> 0]

\* lines 62-80: the call up to the loop
ScanAndLoad ==
    /\ pc = "scan_call"
    /\ IF scan_raises(arg)
       THEN pc' = "scan_raised" /\ ret' = [ret EXCEPT !.raised = "FileNotFoundError"]
       ELSE IF Len(arg.csv_files) = 0
       THEN pc' = "scan_returned" /\ ret' = ret
       ELSE pc' = "scan_loop" /\ ret' = ret
    /\ UNCHANGED <<spot_data, futures_data, field_mapping_cache, scanned_spot, panel, arg, written>>

\* lines 82-121: one file
ScanNextFile ==
    /\ pc = "scan_loop"
    /\ ret.done < Len(arg.csv_files)
    /\ \E g \in {process_file([spot_data |-> spot_data, futures_data |-> futures_data,
                               cache |-> field_mapping_cache, stats |-> ret.stats],
                              arg.csv_files[ret.done + 1])} :
          /\ spot_data' = g.spot_data
          /\ scanned_spot' = g.spot_data
          /\ futures_data' = g.futures_data
          /\ field_mapping_cache' = g.cache
          /\ ret' = [ret EXCEPT !.stats = g.stats, !.done = @ + 1]
    /\ UNCHANGED <<pc, panel, arg, written>>

\* lines 123-127
ScanReturn ==
    /\ pc = "scan_loop"
    /\ ret.done = Len(arg.csv_files)
    /\ pc' = "scan_returned"
    /\ UNCHANGED <<spot_data, futures_data, field_mapping_cache, scanned_spot, panel, arg, ret, written>>

NextScan == ScanAndLoad \/ ScanNextFile \/ ScanReturn \/ GetUnifiedPanel

SpecScan == InitScan /\ [][NextScan]_vars

\* ScanNextFile is enabled exactly when a file is left: its step always
\* moves ret.done
FileLeft == pc = "scan_loop" /\ ret.done < Len(arg.csv_files)

\* weak fairness of ScanNextFile, its enabling condition written out
FairScanNextFile == []<>(~FileLeft) \/ []<><<ScanNextFile>>_vars

\* the call runs on: the loop over the finite file list takes its next
\* file, and the call returns after the last one
SpecScanFair ==
    SpecScan /\ WF_vars(ScanAndLoad) /\ FairScanNextFile /\ WF_vars(ScanReturn)

(***************************************************************************)
(* Classifier determinism (SpecClassify).                                  *)
(***************************************************************************)
SchemaOf(columns) == CHOOSE schema \in ClassifySchemas : schema.columns = columns

\* the classification of the table of these columns, row count and span
\* that starts on day 1, by a gateway as constructed
ClassOf(columns, nrows, span, readable) ==
    detect_data_type(EmptyCache,
                     RawTable(SchemaOf(columns), SpanningDates(nrows, span, readable),
                              [i \in 1..nrows |-> Num(10)], [i \in 1..nrows |-> 0])).ret

\* C20: the classification is a function of the column list, the row count
\* and the date span alone, whatever files came before and whatever the
\* cache, the spot slot and the registry hold; the call leaves the spot slot
\* and the registry as they are.
C20_ClassifierDeterminism ==
    /\ [](pc = "classified" =>
             ret[1].ret = ClassOf(arg.df.columns, arg.nrows, arg.span, arg.readable))
    /\ [][pc = "classify" /\ pc' = "classified" =>
             spot_data' = spot_data /\ futures_data' = futures_data]_vars

\* a volume table starting a thousand days on was classified futures by its
\* span, by a gateway holding a spot series, a contract and the date lookup
\* of that column list in its cache
C20_Witness ==
    /\ pc = "classified"
    /\ arg.first # 1
    /\ arg.df.columns = <<"date", "close", "volume">>
    /\ arg.nrows > 1 /\ arg.readable
    /\ spot_data # None
    /\ Len(futures_data) = 1
    /\ ret[1].ret = "futures"

(***************************************************************************)
(* Calls of _map_standard_field on one gateway (SpecMap).  arg is the call *)
(* [columns, field]; ret is [value, hit]: the value returned and whether   *)
(* the call's key was in the cache when the call was made.                 *)
(***************************************************************************)
\* the cache entries a run of the model makes at most
MaxCached == 3

\* column lists of the calls: the same names in two orders, names to fold
\* and strip, a list without any match, two columns matching one field
MapColumnLists ==
    { <<"date", "riqi">>, <<"riqi", "date">>,
      <<"memo", " Date", "Close", "close">>,
      <<"memo", "point">>,
      <<"Volume", "OI", "volume">> }

\* the canonical fields asked for, and one that STANDARD_FIELDS lacks
MapFields == {"date", "price", "volume", "open"}

InitMap ==
    /\ Constructed
    /\ written = {}
    /\ pc = "idle"
    /\ arg = <<>>
    /\ ret = <<>>

MapStandardField ==
    /\ pc \in {"idle", "mapped"}
    /\ \E columns \in MapColumnLists, standard_field \in MapFields :
          LET cache_key == [columns |-> columns, field |-> standard_field]
          IN  /\ cache_key \in DOMAIN field_mapping_cache
                    \/ Cardinality(DOMAIN field_mapping_cache) < MaxCached
              /\ arg' = cache_key
              /\ \E called \in {map_standard_field(field_mapping_cache, columns, standard_field)} :
                    /\ ret' = [value |-> called.ret,
                               hit |-> cache_key \in DOMAIN field_mapping_cache]
                    /\ field_mapping_cache' = called.cache
    /\ pc' = "mapped"
    /\ UNCHANGED <<spot_data, futures_data, scanned_spot, panel, written>>

NextMap == MapStandardField

SpecMap == InitMap /\ [][NextMap]_vars

(***************************************************************************)
(* Claims about _map_standard_field (SpecMap).                             *)
(***************************************************************************)
\* col's case-folded, stripped name is matched by some pattern of the field
NameMatchesField(col, standard_field) ==
    /\ standard_field \in Fields
    /\ \E k \in DOMAIN STANDARD_FIELDS[standard_field] :
          re_search(STANDARD_FIELDS[standard_field][k], strip(lower(col)))

MatchingPositions(columns, standard_field) ==
    {i \in DOMAIN columns : NameMatchesField(columns[i], standard_field)}

\* C18: a call returns the first column, in column order, whose case-folded
\* name matches any pattern of the field, and None when no column matches.
C18_FirstMatchingColumnInOrder ==
    pc = "mapped" =>
        LET hits == MatchingPositions(arg.columns, arg.field)
        IN  IF hits = {} THEN ret.value = None
            ELSE /\ ret.value = Some(arg.columns[Min(hits)])
                 /\ \A i \in DOMAIN arg.columns : i < Min(hits) => i \notin hits

\* a call for the date of <<"riqi", "date">>, where the first pattern matches
\* the second column, returned the first column
C18_Witness ==
    /\ pc = "mapped"
    /\ arg = [columns |-> <<"riqi", "date">>, field |-> "date"]
    /\ ret.value = Some("riqi")

\* the call's result on a gateway whose cache is empty
Uncached(columns, standard_field) == map_standard_field(EmptyCache, columns, standard_field).ret

\* C19: whatever calls went before, a call returns what an uncached
\* evaluation returns for its exact column list and field, and every cache
\* entry holds the uncached result of its own key.
C19_MemoizationTransparent ==
    /\ pc = "mapped" => ret.value = Uncached(arg.columns, arg.field)
    /\ \A key \in DOMAIN field_mapping_cache :
          field_mapping_cache[key] = Uncached(key.columns, key.field)

\* a call answered from the cache while the cache also holds the same names
\* in the other order, with another result, and the same list under another
\* field
C19_Witness ==
    /\ pc = "mapped"
    /\ ret.hit
    /\ arg = [columns |-> <<"riqi", "date">>, field |-> "date"]
    /\ [columns |-> <<"date", "riqi">>, field |-> "date"] \in DOMAIN field_mapping_cache
    /\ [columns |-> <<"riqi", "date">>, field |-> "price"] \in DOMAIN field_mapping_cache
    /\ field_mapping_cache[[columns |-> <<"date", "riqi">>, field |-> "date"]] # ret.value

(***************************************************************************)
(* The aligned calendar and the aligner's early returns (SpecPanel).       *)
(***************************************************************************)
\* C15: when a spot series is loaded and the contracts hold at least one
\* date, the spot slot after the alignment has exactly one row per day of the
\* futures-union calendar, in ascending order, and no row of any other date.
C15_AlignedCalendar ==
    AlignmentRan =>
        /\ \A d \in FuturesCalendar : Cardinality(AlignedRowsOn(d)) = 1
        /\ \A k \in DOMAIN AlignedDates : \E d \in FuturesCalendar : AlignedDates[k] = Ts(d)
        /\ \A j, k \in DOMAIN AlignedDates : j < k => AlignedDates[j][2] < AlignedDates[k][2]

\* the alignment ran on a calendar of two days, with a spot day off the
\* calendar and a calendar day without a spot row
C15_Witness ==
    /\ AlignmentRan
    /\ Cardinality(FuturesCalendar) >= 2
    /\ ScannedSpotDays \ FuturesCalendar # {}
    /\ FuturesCalendar \ ScannedSpotDays # {}

\* the step of get_unified_panel, which calls the aligner first
AlignerCalled == pc # "panel" /\ pc' = "panel"

\* C16: called with an empty spot slot or an empty registry, the aligner
\* leaves the spot slot and the registry as they are.
C16_AlignerNoOp ==
    [][AlignerCalled /\ (spot_data = None \/ Len(futures_data) = 0) =>
           spot_data' = spot_data /\ futures_data' = futures_data]_vars

\* the aligner was called with a spot series of two rows and no contract,
\* and the slot still holds that series
C16_Witness ==
    /\ pc = "panel"
    /\ Len(futures_data) = 0
    /\ spot_data # None
    /\ Len(Column(spot_data[1], "date")) = 2
    /\ spot_data = scanned_spot


(***************************************************************************)
(* Claims about scan_and_load (SpecScan).                                  *)
(***************************************************************************)
InScan == pc \in {"scan_loop", "scan_returned"}

\* what a file, taken alone, writes to the registry: None, or Some of the
\* contract code it derives and the series it normalizes to
FuturesWrite(file) ==
    IF read_table(file) = None THEN None
    ELSE IF detect_data_type(EmptyCache, read_table(file)[1]).ret # "futures" THEN None
    ELSE IF normalize_dataframe(EmptyCache, read_table(file)[1], "futures").raised # "" THEN None
    ELSE Some([code |-> extract_contract_code(file.name, read_table(file)[1]),
               df |-> normalize_dataframe(EmptyCache, read_table(file)[1], "futures").ret])

\* the positions, among the files processed so far, of the files that write
\* the code
WritersOf(code) ==
    {k \in 1..ret.done :
        /\ FuturesWrite(arg.csv_files[k]) # None
        /\ FuturesWrite(arg.csv_files[k])[1].code = code}

\* C11: at every point of the scan the registry holds at most one series
\* per contract code, namely the normalized series of the last file
\* processed so far that classified as futures, derived that code and
\* normalized; every such file's code is held.
C11_RegistryLastWriteWins ==
    InScan =>
        /\ \A c, d \in DOMAIN futures_data :
              c # d => futures_data[c].code # futures_data[d].code
        /\ \A c \in DOMAIN futures_data :
              /\ WritersOf(futures_data[c].code) # {}
              /\ futures_data[c].df =
                    FuturesWrite(arg.csv_files[Max(WritersOf(futures_data[c].code))])[1].df
        /\ \A k \in 1..ret.done :
              FuturesWrite(arg.csv_files[k]) # None =>
                  \E c \in DOMAIN futures_data :
                      futures_data[c].code = FuturesWrite(arg.csv_files[k])[1].code

\* two files of contract cu2301 were processed; the registry holds the
\* series of the second one only
C11_Witness ==
    /\ pc = "scan_returned"
    /\ Cardinality(WritersOf("cu2301")) = 2
    /\ Len(futures_data) = 1
    /\ futures_data[1].df # FuturesWrite(arg.csv_files[Min(WritersOf("cu2301"))])[1].df
    /\ futures_data[1].df = FuturesWrite(arg.csv_files[Max(WritersOf("cu2301"))])[1].df

\* the gateway record after the files from position k on were processed
RECURSIVE ScanFrom(_, _, _)
ScanFrom(g, files, k) ==
    IF k > Len(files) THEN g ELSE ScanFrom(process_file(g, files[k]), files, k + 1)

\* a fresh gateway's scan of the files in the given discovery order
ScanOf(files) ==
    ScanFrom([spot_data |-> None, futures_data |-> <<>>, cache |-> EmptyCache,
              stats |-> NewStats], files, 1)

\* a panel get_unified_panel returns after that scan (its columns and its
\* raising do not depend on the order sorted() gives undated entries)
PanelOfScan(files) ==
    CHOOSE p \in unified_panels(
                   align_to_futures_trading_days(ScanOf(files).spot_data,
                                                 ScanOf(files).futures_data),
                   ScanOf(files).futures_data) : TRUE

NoSharedCode(files) ==
    \A i, j \in DOMAIN files :
        i # j /\ FuturesWrite(files[i]) # None /\ FuturesWrite(files[j]) # None
            => FuturesWrite(files[i])[1].code # FuturesWrite(files[j])[1].code

\* C12: the column order of the panel returned after a scan is the column
\* order of the panel returned after a scan of the same files discovered in
\* any other order, when no two files derive the same contract code.
C12_ColumnOrderIndependentOfDiscovery ==
    pc = "panel" /\ panel.raised = "" /\ NoSharedCode(arg.csv_files) =>
        \A other \in Orderings(Range(arg.csv_files)) :
            PanelOfScan(other).raised = "" => PanelOfScan(other).columns = panel.columns

\* the file the loop takes next
NextFile == arg.csv_files[ret.done + 1]

\* the file reads, classifies as spot or futures, and has no mappable date
\* field or no mappable price field
NormalizationFails(file) ==
    /\ read_table(file) # None
    /\ detect_data_type(EmptyCache, read_table(file)[1]).ret # "None"
    /\ normalize_dataframe(EmptyCache, read_table(file)[1],
                           detect_data_type(EmptyCache, read_table(file)[1]).ret).raised # ""

\* C13: the pass of the loop over a file whose normalization fails appends
\* exactly one error entry, for that file, changes neither counter, neither
\* the spot slot nor the registry, and the loop goes on with the next file.
C13_NormalizationFailureContained ==
    [][ pc = "scan_loop" /\ ret.done < Len(arg.csv_files) /\ NormalizationFails(NextFile) =>
          /\ ret'.stats.errors = Append(ret.stats.errors, ret'.stats.errors[Len(ret'.stats.errors)])
          /\ ret'.stats.errors[Len(ret'.stats.errors)].file = NextFile.name
          /\ ret'.stats.spot_count = ret.stats.spot_count
          /\ ret'.stats.futures_count = ret.stats.futures_count
          /\ spot_data' = spot_data
          /\ futures_data' = futures_data
          /\ ret'.done = ret.done + 1
          /\ pc' = "scan_loop" ]_vars

\* broken.csv failed in normalization and the spot file after it was loaded
C13_Witness ==
    /\ pc = "scan_returned"
    /\ Len(arg.csv_files) = 2
    /\ NormalizationFails(arg.csv_files[1])
    /\ arg.csv_files[2].name = "spot.csv"
    /\ Len(ret.stats.errors) = 1
    /\ ret.stats.errors[1].file = "broken.csv"
    /\ ret.stats.spot_count = 1
    /\ ret.stats.futures_count = 0
    /\ spot_data # None

\* C14: scan_and_load raises exactly when the directory does not exist, and
\* then with the gateway as constructed; on an existing directory it never
\* raises and the call returns, every file processed, whatever the files.
C14_OnlyDirectoryErrorRaised ==
    /\ [](pc = "scan_raised" => ~arg.exists /\ ret.raised = "FileNotFoundError" /\ Constructed)
    /\ [](~arg.exists /\ pc # "scan_call" => pc = "scan_raised")
    /\ [](arg.exists => ret.raised = "")
    /\ [](pc = "scan_returned" => ret.done = Len(arg.csv_files))
    /\ (pc = "scan_call" /\ arg.exists ~> pc = "scan_returned")

\* the scan returned from a directory whose three files are an unreadable
\* one, an unclassifiable one and one that fails normalization
C14_Witness ==
    /\ pc = "scan_returned"
    /\ ret.raised = ""
    /\ {arg.csv_files[k].name : k \in DOMAIN arg.csv_files} = {"empty.csv", "notes.csv", "broken.csv"}
    /\ ret.stats.spot_count = 0 /\ ret.stats.futures_count = 0
    /\ Len(ret.stats.errors) = 3

(***************************************************************************)
(* SpecPrep: the preprocessing entry point (src/数据预处理.py).  The        *)
(* process calls preprocess_and_save on a directory, which scans it on a   *)
(* fresh gateway (the steps of SpecScan), builds the panel and writes the  *)
(* snapshot and the panel CSV; __main__ then exits.  ret carries, next to  *)
(* the scan's record, the value preprocess_and_save returned (success) and *)
(* the exit status of the process.  GetUnifiedPanel is the step of another *)
(* caller that builds the panel right after the scan.                      *)
(***************************************************************************)
\* lines 78-96 with the default output_file
SnapshotFile == "processed_data.pkl"
PanelCsvFile == "processed_data_panel.csv"

\* panel.empty: an axis of length 0
panel_empty(p) == Len(p.index) = 0 \/ Len(p.columns) = 0

\* the status of a process that ends on an uncaught exception
TracebackStatus == 1

InitPrep ==
    /\ Constructed
    /\ written = {}
    /\ pc = "scan_call"
    /\ arg \in Directories
    /\ ret = [raised |-> "", stats |-> NewStats, done |-> 0,
              success |-> None, exit_status |-> None]

\* the test that preprocess_and_save leaves out: both counts zero
returns_false_on_counts_never(stats) == FALSE

\* line 59
returns_false_on_counts(stats) == stats.spot_count = 0 /\ stats.futures_count = 0

\* lines 59-61
PrepCheckCounts ==
    /\ pc = "scan_returned"
    /\ IF returns_false_on_counts(ret.stats)
       THEN pc' = "prep_returned" /\ ret' = [ret EXCEPT !.success = Some(FALSE)]
       ELSE pc' = "prep_panel" /\ ret' = ret
    /\ UNCHANGED <<spot_data, futures_data, field_mapping_cache, scanned_spot, panel, arg, written>>

\* lines 65-69
PrepGetUnifiedPanel ==
    /\ pc = "prep_panel"
    /\ spot_data' = align_to_futures_trading_days(spot_data, futures_data)
    /\ panel' \in unified_panels(spot_data', futures_data)
    /\ IF panel'.raised # ""
       THEN pc' = "prep_raised" /\ ret' = [ret EXCEPT !.raised = panel'.raised]
       ELSE IF panel_empty(panel')
       THEN pc' = "prep_returned" /\ ret' = [ret EXCEPT !.success = Some(FALSE)]
       ELSE pc' = "prep_save" /\ ret' = ret
    /\ UNCHANGED <<futures_data, field_mapping_cache, scanned_spot, arg, written>>

\* lines 76-104
PrepSave ==
    /\ pc = "prep_save"
    /\ written' = written \cup {SnapshotFile, PanelCsvFile}
    /\ ret' = [ret EXCEPT !.success = Some(TRUE)]
    /\ pc' = "prep_returned"
    /\ UNCHANGED <<spot_data, futures_data, field_mapping_cache, scanned_spot, panel, arg>>

\* the process ends without the sys.exit(1) of line 119
exit_status_without_sys_exit(success) == 0

\* lines 116-119: the status the process ends with after preprocess_and_save
\* returned
exit_status_of(success) == IF success = Some(TRUE) THEN 0 ELSE 1

\* lines 116-119, and the end of the process on an uncaught exception
PrepExit ==
    /\ pc \in {"prep_returned", "scan_raised", "prep_raised"}
    /\ ret' = [ret EXCEPT !.exit_status =
                  IF pc = "prep_returned" THEN Some(exit_status_of(ret.success))
                  ELSE Some(TracebackStatus)]
    /\ pc' = "exited"
    /\ UNCHANGED <<spot_data, futures_data, field_mapping_cache, scanned_spot, panel, arg, written>>

NextPrep ==
    \/ ScanAndLoad \/ ScanNextFile \/ ScanReturn
    \/ PrepCheckCounts \/ PrepGetUnifiedPanel \/ PrepSave \/ PrepExit
    \/ GetUnifiedPanel

SpecPrep == InitPrep /\ [][NextPrep]_vars

(***************************************************************************)
(* Claims about the empty result and the preprocessing exit (SpecPrep).    *)
(***************************************************************************)
NoCsvFiles == arg.exists /\ Len(arg.csv_files) = 0
ScanOver == pc \notin {"scan_call", "scan_loop", "scan_raised"}
NothingCounted == ret.stats.spot_count = 0 /\ ret.stats.futures_count = 0

\* C21: the scan of an existing directory without CSV files returns both
\* counts 0 and leaves the spot slot and the registry empty; a
\* get_unified_panel that follows returns the empty panel, and
\* preprocess_and_save returns False with neither the snapshot nor the panel
\* CSV written.
C21_EmptyResultSignal ==
    NoCsvFiles /\ ScanOver =>
        /\ NothingCounted /\ ret.stats.errors = <<>>
        /\ spot_data = None /\ futures_data = <<>>
        /\ pc = "panel" => panel = EmptyPanel
        /\ pc \in {"prep_returned", "exited"} => ret.success = Some(FALSE)
        /\ pc \notin {"prep_panel", "prep_save", "prep_raised"}
        /\ written = {}

\* preprocess_and_save returned False on a directory without CSV files and
\* the process exited
C21_Witness ==
    /\ NoCsvFiles
    /\ pc = "exited"
    /\ ret.success = Some(FALSE)
    /\ written = {}

\* the empty panel was returned after the scan of a directory without CSV
\* files
C21_WitnessPanel == NoCsvFiles /\ pc = "panel" /\ panel = EmptyPanel

\* C22: when the scan counted no spot and no futures file, the process
\* exits with a non-zero status and writes no snapshot; the snapshot is
\* written only on the path on which preprocess_and_save returns True.
C22_ExitStatus ==
    /\ pc = "exited" /\ NothingCounted => ret.exit_status # Some(0) /\ written = {}
    /\ ScanOver /\ NothingCounted => SnapshotFile \notin written
    /\ SnapshotFile \in written =>
          /\ ret.success = Some(TRUE)
          /\ pc = "exited" => ret.exit_status = Some(0)
    /\ pc = "exited" /\ ret.success # Some(TRUE) => written = {}

\* the process exited with status 1 on a directory whose files are all
\* unreadable or unclassifiable
C22_Witness ==
    /\ pc = "exited"
    /\ Len(arg.csv_files) >= 2
    /\ NothingCounted
    /\ ret.exit_status = Some(1)
    /\ written = {}

\* the process exited with status 0 and the snapshot written
C22_WitnessSuccess ==
    /\ pc = "exited" /\ ret.exit_status = Some(0) /\ SnapshotFile \in written

(***************************************************************************)
(* SpecRead: the encoding loop of scan_and_load (lines 85-99) on one file, *)
(* one step per attempt, followed by the rest of the loop body.  arg is    *)
(* the file; ret is [tried, df, stats]: the encodings tried so far, the    *)
(* variable df and the scan's statistics.                                  *)
(***************************************************************************)
EmptyTable == DataFrame(<<"date", "close">>, << <<>>, <<>> >>)

\* what pd.read_csv does under one encoding: raises (None), or returns a
\* table without rows or one of two tables with a row
ReadOutcomes == {None, Some(EmptyTable), Some(FuturesTable(1, 7)), Some(FuturesTable(2, 9))}

ReadFiles == {[name |-> "cu2301.csv", reads |-> reads] : reads \in [DOMAIN encodings -> ReadOutcomes]}

\* df.empty
df_empty(df) == len(df) = 0 \/ Len(df.columns) = 0

\* the loop left as soon as read_csv returned, whatever the table holds
try_encoding_leaving_on_any_table(df, outcome) ==
    IF outcome = None THEN [df |-> df, left |-> FALSE]
    ELSE [df |-> outcome, left |-> TRUE]

\* lines 88-95, one pass: df after the pass and whether the loop was left
try_encoding(df, outcome) ==
    IF outcome = None THEN [df |-> df, left |-> FALSE]
    ELSE [df |-> outcome, left |-> ~df_empty(outcome[1])]

InitRead ==
    /\ Constructed
    /\ written = {}
    /\ pc = "read_loop"
    /\ arg \in ReadFiles
    /\ ret = [tried |-> <<>>, df |-> None, stats |-> NewStats]

\* lines 87-95, one pass of the loop over the encodings
TryEncoding ==
    /\ pc = "read_loop"
    /\ LET k == Len(ret.tried) + 1
           pass == try_encoding(ret.df, arg.reads[k])
       IN  /\ ret' = [ret EXCEPT !.tried = Append(@, encodings[k]), !.df = pass.df]
           /\ pc' = IF pass.left \/ k = Len(encodings) THEN "read_done" ELSE "read_loop"
    /\ UNCHANGED <<spot_data, futures_data, field_mapping_cache, scanned_spot, panel, arg, written>>

\* lines 97-121: the rest of the loop body
AfterRead ==
    /\ pc = "read_done"
    /\ \E g \in {IF ret.df = None \/ df_empty(ret.df[1])
                 THEN [spot_data |-> spot_data, futures_data |-> futures_data,
                       cache |-> field_mapping_cache,
                       stats |-> [ret.stats EXCEPT
                                     !.errors = Append(@, ErrorEntry(arg, "empty or unreadable"))]]
                 ELSE classified_file([spot_data |-> spot_data, futures_data |-> futures_data,
                                       cache |-> field_mapping_cache, stats |-> ret.stats],
                                      arg, ret.df[1],
                                      detect_data_type(field_mapping_cache, ret.df[1]))} :
          /\ spot_data' = g.spot_data
          /\ scanned_spot' = g.spot_data
          /\ futures_data' = g.futures_data
          /\ field_mapping_cache' = g.cache
          /\ ret' = [ret EXCEPT !.stats = g.stats]
    /\ pc' = "file_done"
    /\ UNCHANGED <<panel, arg, written>>

NextRead == TryEncoding \/ AfterRead

SpecRead == InitRead /\ [][NextRead]_vars

(***************************************************************************)
(* Claims about the encoding fallback (SpecRead).                          *)
(***************************************************************************)
\* the encoding at position k parses the file into a table with rows
ParsesNonEmpty(file, k) == file.reads[k] # None /\ len(file.reads[k][1]) > 0
ParsingEncodings(file) == {k \in DOMAIN encodings : ParsesNonEmpty(file, k)}
ReadOver == pc \in {"read_done", "file_done"}

\* C23: the encodings are tried in the fixed order utf-8-sig, utf-8, gbk,
\* gb2312, gb18030, at most five times; the loop stops at the first one
\* that parses into a non-empty table and that table is used; the file
\* gets one error entry, and nothing is stored, exactly when no encoding
\* parses into a non-empty table.
C23_EncodingFallback ==
    /\ encodings = <<"utf-8-sig", "utf-8", "gbk", "gb2312", "gb18030">>
    /\ Len(ret.tried) <= 5
    /\ ret.tried = SubSeq(encodings, 1, Len(ret.tried))
    /\ \A k \in 1..(Len(ret.tried) - 1) : ~ParsesNonEmpty(arg, k)
    /\ pc = "read_loop" => \A k \in DOMAIN ret.tried : ~ParsesNonEmpty(arg, k)
    /\ ReadOver =>
          IF ParsingEncodings(arg) = {}
          THEN Len(ret.tried) = 5 /\ (ret.df = None \/ len(ret.df[1]) = 0)
          ELSE /\ Len(ret.tried) = Min(ParsingEncodings(arg))
               /\ ret.df = arg.reads[Min(ParsingEncodings(arg))]
    /\ ReadOver => (IF ret.df # None /\ len(ret.df[1]) > 0 THEN ret.df ELSE None) = read_table(arg)
    /\ pc = "file_done" =>
          IF ParsingEncodings(arg) = {}
          THEN /\ Len(ret.stats.errors) = 1
               /\ ret.stats.spot_count = 0 /\ ret.stats.futures_count = 0
               /\ spot_data = None /\ futures_data = <<>>
          ELSE /\ ret.stats.errors = <<>>
               /\ ret.stats.futures_count = 1
               /\ Len(futures_data) = 1
               /\ Column(futures_data[1].df, "date")
                    = to_datetime(Column(arg.reads[Min(ParsingEncodings(arg))][1], "date"))

\* a file that raises under utf-8-sig, parses into a table without rows
\* under utf-8, raises under gbk and parses into a table with a row under
\* gb2312 and, differently, under gb18030: four attempts, the gb2312 table
\* stored
C23_Witness ==
    /\ pc = "file_done"
    /\ arg.reads = <<None, Some(EmptyTable), None, Some(FuturesTable(2, 9)), Some(FuturesTable(1, 7))>>
    /\ ret.tried = <<"utf-8-sig", "utf-8", "gbk", "gb2312">>
    /\ Len(futures_data) = 1
    /\ Column(futures_data[1].df, "date") = <<Ts(2)>>

\* a file no encoding parses into a table with rows: five attempts and one
\* error entry
C23_WitnessUnreadable ==
    /\ pc = "file_done"
    /\ arg.reads = <<None, Some(EmptyTable), None, None, None>>
    /\ Len(ret.tried) = 5
    /\ Len(ret.stats.errors) = 1

(***************************************************************************)
(* data_quality_report().  The report is [spot, futures]: spot is None     *)
(* (the status entry) or Some of a series entry, futures is None (the      *)
(* status entry) or Some of [contract_count, contracts], contracts being   *)
(* the entries [code, entry] in registry order.  A series entry is         *)
(* [total_records, valid_records, completeness]; the date_range text is    *)
(* left out.  completeness is the text f"{completeness * 100:.2f}%",       *)
(* held as the cell <<"pct", h>> with h the hundredths of a percent shown: *)
(* "33.33%" is <<"pct", 3333>>.                                            *)
(***************************************************************************)
Pct(h) == <<"pct", h>>

(***************************************************************************)
(* The arithmetic of Python floats (IEEE 754 binary64).  A positive float  *)
(* is [bits, exp]: the binary number bits, most significant bit first,     *)
(* times 2^exp.  Every operation rounds its exact result to 53 significant *)
(* bits, to the nearest, a half to the even neighbour.  Long numbers are   *)
(* multiplied and divided ten bits (a limb) at a time.                     *)
(***************************************************************************)
MantissaBits == 53
LimbBits == 10
LimbBase == 2 ^ LimbBits

\* limbs of the quotient computed after the binary point: enough for 53
\* significant bits of any quotient of two integers below 2^21
FractionLimbs == 10

Reverse(s) == [i \in DOMAIN s |-> s[Len(s) + 1 - i]]
Zeros(k) == [i \in 1..k |-> 0]

StripZeros(bits) ==
    LET ones == {i \in DOMAIN bits : bits[i] = 1}
    IN  IF ones = {} THEN <<>> ELSE SubSeq(bits, Min(ones), Len(bits))

\* the bits of a sequence of limbs, most significant first
BitsOfLimbs(limbs) ==
    [i \in 1..(LimbBits * Len(limbs)) |->
        (limbs[((i - 1) \div LimbBits) + 1] \div 2 ^ (LimbBits - 1 - ((i - 1) % LimbBits))) % 2]

IntBits(n) == StripZeros(BitsOfLimbs(<<n \div (LimbBase * LimbBase * LimbBase),
                                       (n \div (LimbBase * LimbBase)) % LimbBase,
                                       (n \div LimbBase) % LimbBase,
                                       n % LimbBase>>))

\* the value of the limb that ends at bit e of the sequence
RECURSIVE LimbValue(_, _, _)
LimbValue(bits, e, k) ==
    IF k = 0 \/ e < 1 THEN 0 ELSE 2 * LimbValue(bits, e - 1, k - 1) + bits[e]

\* the limbs of a binary number, least significant first
LimbsOfBits(bits) ==
    [j \in 1..((Len(bits) + LimbBits - 1) \div LimbBits) |->
        LimbValue(bits, Len(bits) - LimbBits * (j - 1), LimbBits)]

RECURSIVE LimbsValue(_)
LimbsValue(limbs) ==
    IF limbs = <<>> THEN 0 ELSE Head(limbs) + LimbBase * LimbsValue(Tail(limbs))

BitsValue(bits) == LimbsValue(LimbsOfBits(bits))

\* limbs times 100, least significant limb first
RECURSIVE MulLimbs(_, _)
MulLimbs(limbs, carry) ==
    IF limbs = <<>> THEN (IF carry = 0 THEN <<>> ELSE <<carry>>)
    ELSE <<(Head(limbs) * 100 + carry) % LimbBase>>
             \o MulLimbs(Tail(limbs), (Head(limbs) * 100 + carry) \div LimbBase)

Times100(bits) == StripZeros(BitsOfLimbs(Reverse(MulLimbs(LimbsOfBits(bits), 0))))

\* a binary number plus one
Increment(bits) ==
    LET zeros == {i \in DOMAIN bits : bits[i] = 0}
    IN  IF zeros = {} THEN <<1>> \o Zeros(Len(bits))
        ELSE SubSeq(bits, 1, Max(zeros) - 1) \o <<1>> \o Zeros(Len(bits) - Max(zeros))

\* the first keep bits of a number, rounded on the bits dropped; sticky
\* tells that the exact number has a non-zero part below its last bit
RoundBits(bits, keep, sticky) ==
    IF Len(bits) <= keep THEN [bits |-> bits, dropped |-> 0]
    ELSE LET top == SubSeq(bits, 1, keep)
             rest == SubSeq(bits, keep + 1, Len(bits))
             more == sticky \/ \E i \in 2..Len(rest) : rest[i] = 1
             up == rest[1] = 1 /\ (more \/ top[keep] = 1)
         IN  [bits |-> IF up THEN Increment(top) ELSE top, dropped |-> Len(rest)]

\* the first k limbs of r / d after the binary point, r < d, most
\* significant first, and the remainder left
RECURSIVE QuotientLimbs(_, _, _)
QuotientLimbs(r, d, k) ==
    IF k = 0 THEN [limbs |-> <<>>, rem |-> r]
    ELSE LET next == QuotientLimbs((r * LimbBase) % d, d, k - 1)
         IN  [limbs |-> <<(r * LimbBase) \div d>> \o next.limbs, rem |-> next.rem]

\* n / d of two positive integers
float_divide(n, d) ==
    LET q == QuotientLimbs(n % d, d, FractionLimbs)
        exact == StripZeros(IntBits(n \div d) \o BitsOfLimbs(q.limbs))
        rounded == RoundBits(exact, MantissaBits, q.rem # 0)
    IN  [bits |-> rounded.bits, exp |-> rounded.dropped - LimbBits * FractionLimbs]

\* x * 100
float_times_100(x) ==
    LET rounded == RoundBits(Times100(x.bits), MantissaBits, FALSE)
    IN  [bits |-> rounded.bits, exp |-> x.exp + rounded.dropped]

\* f"{x:.2f}" without its point: the float to the nearest hundredth, printed
\* from its exact value
float_hundredths(x) ==
    LET exact == Times100(x.bits)
        padded == IF Len(exact) <= 0 - x.exp
                  THEN Zeros(1 - x.exp - Len(exact)) \o exact
                  ELSE exact
    IN  IF x.exp >= 0 THEN BitsValue(exact \o Zeros(x.exp))
        ELSE BitsValue(RoundBits(padded, Len(padded) + x.exp, FALSE).bits)

\* f"{n / d * 100:.2f}" without its point: the hundredths of a percent shown
format_percent(n, d) ==
    IF n = 0 THEN 0 ELSE float_hundredths(float_times_100(float_divide(n, d)))

\* every row counted, whatever its price
valid_price_days_counting_rows(df) == len(df)

\* df['price'].notna().sum() if 'price' in df.columns else 0
valid_price_days(df) ==
    IF HasColumn(df, "price")
    THEN Cardinality({i \in DOMAIN Column(df, "price") : notna(Column(df, "price")[i])})
    ELSE 0

\* lines 431-440 and 452-461: the entry of one series
series_report(df) ==
    [total_records |-> len(df),
     valid_records |-> valid_price_days(df),
     completeness |-> Pct(IF len(df) > 0 THEN format_percent(valid_price_days(df), len(df))
                          ELSE 0)]

\* lines 424-465
data_quality_report(spot, registry) ==
    [spot |-> IF spot # None /\ ~(len(spot[1]) = 0 \/ Len(spot[1].columns) = 0)
              THEN Some(series_report(spot[1])) ELSE None,
     futures |-> IF Len(registry) > 0
                 THEN Some([contract_count |-> Len(registry),
                            contracts |-> [c \in DOMAIN registry |->
                                              [code |-> registry[c].code,
                                               entry |-> series_report(registry[c].df)]]])
                 ELSE None]

(***************************************************************************)
(* SpecReport: a scan that loads at most one spot file of up to MaxRows    *)
(* rows and up to MaxContracts futures files, get_unified_panel or not,    *)
(* then data_quality_report.  ret holds the report returned.               *)
(***************************************************************************)
\* spot files of 1..MaxRows rows dated day 1, 2, ..., each price present or
\* absent
LongSpotFiles ==
    UNION { { RawTable(SpotSchema, [i \in 1..n |-> Str(i)], prices, [i \in 1..n |-> 0]) :
                prices \in [1..n -> RawPriceCells] } :
            n \in 1..MaxRows }

ScanLongSpotFile ==
    /\ pc = "scan"
    /\ spot_data = None
    /\ futures_data = <<>>
    /\ \E df \in LongSpotFiles : scan_file(SpotFileName, df)
    /\ scanned_spot' = spot_data'
    /\ UNCHANGED <<pc, panel, arg, ret, written>>

DataQualityReport ==
    /\ pc \in {"scan", "panel"}
    /\ ret' = <<data_quality_report(spot_data, futures_data)>>
    /\ pc' = "reported"
    /\ UNCHANGED <<spot_data, futures_data, field_mapping_cache, scanned_spot, panel, arg, written>>

NextReport == ScanLongSpotFile \/ ScanFuturesFile \/ GetUnifiedPanel \/ DataQualityReport

SpecReport == InitPanel /\ [][NextReport]_vars

(***************************************************************************)
(* Claims about data_quality_report (SpecReport).                          *)
(***************************************************************************)
Reported == pc = "reported"
PresentPrices(df) == {i \in DOMAIN Column(df, "price") : notna(Column(df, "price")[i])}

\* total_records and valid_records of the entry of the series df
CountsRecorded(entry, df) ==
    /\ entry.total_records = Len(Column(df, "price"))
    /\ entry.valid_records = Cardinality(PresentPrices(df))
    /\ 0 <= entry.valid_records /\ entry.valid_records <= entry.total_records

\* completeness is the quotient valid_records / total_records itself
RatioRecorded(entry) ==
    IF entry.total_records = 0 THEN entry.completeness = Pct(0)
    ELSE /\ entry.completeness[1] = "pct"
         /\ entry.completeness[2] * entry.total_records = 10000 * entry.valid_records

\* completeness is the quotient as a percentage of two decimals, the nearest
\* to the quotient
PercentRecorded(entry) ==
    IF entry.total_records = 0 THEN entry.completeness = Pct(0)
    ELSE /\ entry.completeness[1] = "pct"
         /\ LET twice_error == 2 * (entry.completeness[2] * entry.total_records
                                      - 10000 * entry.valid_records)
            IN  -entry.total_records <= twice_error /\ twice_error <= entry.total_records

\* every series has its entry, and the entries satisfy Holds
ReportCovers(Holds(_)) ==
    /\ spot_data # None =>
          /\ ret[1].spot # None
          /\ CountsRecorded(ret[1].spot[1], spot_data[1])
          /\ Holds(ret[1].spot[1])
    /\ Len(futures_data) > 0 =>
          /\ ret[1].futures # None
          /\ Len(ret[1].futures[1].contracts) = Len(futures_data)
          /\ \A c \in DOMAIN futures_data :
                /\ ret[1].futures[1].contracts[c].code = futures_data[c].code
                /\ CountsRecorded(ret[1].futures[1].contracts[c].entry, futures_data[c].df)
                /\ Holds(ret[1].futures[1].contracts[c].entry)

ReportLeavesSeries ==
    [][pc' = "reported" => spot_data' = spot_data /\ futures_data' = futures_data]_vars

\* C24 as stated: the report records, for the spot series and every
\* contract, the row count, the count of rows with a price and their
\* quotient as completeness, and leaves the spot slot and the registry as
\* they are.
C24_QualityReportRatio ==
    /\ [](Reported => ReportCovers(RatioRecorded))
    /\ ReportLeavesSeries

\* C24, amended: completeness is the quotient shown as a percentage with two
\* decimals ("33.33%" for 1 of 3), so it is the quotient only up to that
\* rounding.
C24_QualityReportPercent ==
    /\ [](Reported => ReportCovers(PercentRecorded))
    /\ ReportLeavesSeries

\* the report of a spot series of three rows with one price and of a
\* contract
C24_Witness ==
    /\ Reported
    /\ spot_data # None /\ Len(futures_data) = 1
    /\ ret[1].spot[1].total_records = 3
    /\ ret[1].spot[1].valid_records = 1
    /\ ret[1].spot[1].completeness = Pct(3333)

(***************************************************************************)
(* SpecRun: main() of the run entry point (src/运行程序.py) on the snapshot *)
(* the preprocessing left.  arg describes the snapshot: whether the file   *)
(* exists and the series the panel in it was built from (rows, absent      *)
(* leading spot prices, with or without a spot series, the contract code). *)
(* panel is processed_data['panel']; ret is [spot_col, observations,       *)
(* analyzed].  The analyzer itself is not part of the model: its run       *)
(* either returns or raises.                                               *)
(***************************************************************************)
\* line 102
MinObservations == 30
SummaryFile == "hedge_analysis_summary.csv"

\* a spot series of n rows on days 1..n whose first `lead` prices are
\* absent, as the normalizer leaves it
RunSpotSeries(n, lead) ==
    DataFrame(<<"date", "price">>,
              << [i \in 1..n |-> Ts(i)],
                 [i \in 1..n |-> IF i <= lead THEN NaN ELSE Num(10)] >>)

\* a normalized contract of n rows on days 1..n
RunContract(code, n) ==
    [code |-> code,
     df |-> DataFrame(<<"date", "price", "oi">>,
                      << [i \in 1..n |-> Ts(i)], [i \in 1..n |-> Num(7)],
                         [i \in 1..n |-> Num(100)] >>)]

RunRows == {MinObservations - 1, MinObservations, MinObservations + 1}
RunLeads == 0..2
\* contract codes, one of them holding the letters spot
RunCodes == {"cu2301", "spot2301"}

InitRun ==
    /\ Constructed
    /\ written = {}
    /\ pc = "run_start"
    /\ arg \in [exists : BOOLEAN, rows : RunRows, lead : RunLeads, has_spot : BOOLEAN,
                code : RunCodes]
    /\ ret = [spot_col |-> None, observations |-> 0, analyzed |-> FALSE, raised |-> ""]

\* lines 82-88: the snapshot loaded, or main returns without one
LoadProcessedData ==
    /\ pc = "run_start"
    /\ IF ~arg.exists
       THEN pc' = "run_returned" /\ panel' = panel
       ELSE /\ pc' = "run_loaded"
            /\ \E spot \in {IF arg.has_spot THEN Some(RunSpotSeries(arg.rows, arg.lead))
                                            ELSE None} :
                  \E registry \in {<<RunContract(arg.code, arg.rows)>>} :
                     panel' \in unified_panels(align_to_futures_trading_days(spot, registry),
                                               registry)
    /\ UNCHANGED <<spot_data, futures_data, field_mapping_cache, scanned_spot, arg, ret, written>>

\* line 95: the columns whose lowered name holds 'spot', in panel order
spot_col(p) ==
    LET hits == {c \in DOMAIN p.columns : re_search("spot", lower(p.columns[c]))}
    IN  [k \in 1..Cardinality(hits) |->
            p.columns[CHOOSE c \in hits : Cardinality({h \in hits : h <= c}) = k]]

PanelColumn(p, name) == p.data[CHOOSE c \in DOMAIN p.columns : p.columns[c] = name]

\* the length of the column as it is, absent cells included
observations_without_dropna(col) == Len(col)

\* line 100-102: len(panel[...].dropna())
observations(col) == Cardinality({i \in DOMAIN col : notna(col[i])})

\* lines 95-104
PickSpotSeries ==
    /\ pc = "run_loaded"
    /\ IF Len(spot_col(panel)) = 0
       THEN pc' = "run_returned" /\ ret' = ret
       ELSE /\ ret' = [ret EXCEPT !.spot_col = Some(spot_col(panel)[1]),
                                  !.observations =
                                      observations(PanelColumn(panel, spot_col(panel)[1]))]
            /\ pc' = IF ret'.observations < MinObservations THEN "run_returned"
                                                            ELSE "run_analysis"
    /\ UNCHANGED <<spot_data, futures_data, field_mapping_cache, scanned_spot, panel, arg, written>>

\* lines 121-135: the analyzer constructed and run; an exception it raises
\* ends main at the handler of line 181
RunAnalysis ==
    /\ pc = "run_analysis"
    /\ \E raised \in {"", "Exception"} :
          /\ ret' = [ret EXCEPT !.analyzed = TRUE, !.raised = raised]
          /\ pc' = IF raised = "" THEN "run_summary" ELSE "run_returned"
    /\ UNCHANGED <<spot_data, futures_data, field_mapping_cache, scanned_spot, panel, arg, written>>

\* lines 141-169
WriteSummary ==
    /\ pc = "run_summary"
    /\ written' = written \cup {SummaryFile}
    /\ pc' = "run_returned"
    /\ UNCHANGED <<spot_data, futures_data, field_mapping_cache, scanned_spot, panel, arg, ret>>

NextRun == LoadProcessedData \/ PickSpotSeries \/ RunAnalysis \/ WriteSummary

SpecRun == InitRun /\ [][NextRun]_vars

(***************************************************************************)
(* Claims about the run entry point (SpecRun).                             *)
(***************************************************************************)
HoldsSpot(name) == re_search("spot", lower(name))
SpotNamedColumns == {c \in DOMAIN panel.columns : HoldsSpot(panel.columns[c])}
Picked == pc \in {"run_analysis", "run_summary"} \/ (pc = "run_returned" /\ arg.exists)
PresentCells(col) == {i \in DOMAIN col : notna(col[i])}

\* C25: the spot series is the first panel column whose name holds 'spot',
\* which is spot_price when the panel has that column; the analyzer runs
\* only on a column of at least 30 present observations, and without such a
\* column, or with fewer observations, main stops with no analysis run and
\* no summary written.
C25_DownstreamGate ==
    /\ Picked =>
          /\ ret.spot_col = IF SpotNamedColumns = {} THEN None
                            ELSE Some(panel.columns[Min(SpotNamedColumns)])
          /\ HasPanelColumn("spot_price") => ret.spot_col = Some("spot_price")
    /\ ret.analyzed \/ pc \in {"run_analysis", "run_summary"} =>
          /\ ret.spot_col # None
          /\ Cardinality(PresentCells(PanelColumn(panel, ret.spot_col[1]))) >= 30
    /\ Picked /\ (SpotNamedColumns = {}
                    \/ Cardinality(PresentCells(panel.data[Min(SpotNamedColumns)])) < 30) =>
          pc = "run_returned" /\ ~ret.analyzed /\ SummaryFile \notin written
    /\ SummaryFile \in written => ret.analyzed

\* main stopped on a panel of 31 rows whose spot_price has 29 present
\* observations
C25_Witness ==
    /\ pc = "run_returned"
    /\ arg.exists /\ arg.has_spot /\ arg.rows = 31 /\ arg.lead = 2
    /\ ret.spot_col = Some("spot_price")
    /\ ret.observations = 29
    /\ ~ret.analyzed /\ written = {}

\* the analysis ran on exactly 30 observations and the summary was written
C25_WitnessRun ==
    /\ pc = "run_returned"
    /\ ret.observations = 30 /\ ret.analyzed /\ SummaryFile \in written

(***************************************************************************)
(* Scan accounting (SpecScan).                                             *)
(***************************************************************************)
Accounted(stats) == stats.spot_count + stats.futures_count + Len(stats.errors)

\* the statistics moved by exactly one of: a spot file counted, a futures
\* file counted, an error entry appended
OneContribution(before, after) ==
    \/ /\ after.spot_count = before.spot_count + 1
       /\ after.futures_count = before.futures_count
       /\ after.errors = before.errors
    \/ /\ after.spot_count = before.spot_count
       /\ after.futures_count = before.futures_count + 1
       /\ after.errors = before.errors
    \/ /\ after.spot_count = before.spot_count
       /\ after.futures_count = before.futures_count
       /\ Len(after.errors) = Len(before.errors) + 1
       /\ SubSeq(after.errors, 1, Len(before.errors)) = before.errors

\* C26: every pass of the loop contributes exactly one of +1 spot_count, +1
\* futures_count or one error entry, so the running total is the number of
\* files processed so far and, when the scan returns, the number of files
\* discovered.
C26_ScanAccounting ==
    /\ [](InScan => Accounted(ret.stats) = ret.done)
    /\ [](pc = "scan_returned" => Accounted(ret.stats) = Len(arg.csv_files))
    /\ [][ret'.done # ret.done =>
             ret'.done = ret.done + 1 /\ OneContribution(ret.stats, ret'.stats)]_vars

\* a scan of three files returned one spot file counted, one futures file
\* counted and one error entry
C26_Witness ==
    /\ pc = "scan_returned"
    /\ Len(arg.csv_files) = 3
    /\ ret.stats.spot_count = 1
    /\ ret.stats.futures_count = 1
    /\ Len(ret.stats.errors) = 1

(***************************************************************************)
(* The aligner's cursor after a cold start (SpecPanel).                    *)
(***************************************************************************)
\* the targets of the alignment that ran and the branch each was given
AlignTargets == Ascending(FuturesCalendar)
AlignTaken ==
    AlignBranches(scanned_spot[1], [k \in DOMAIN AlignTargets |-> Ts(AlignTargets[k])], 1, PyNone)
NearestScans == {k \in DOMAIN AlignTaken : AlignTaken[k].branch = "nearest"}

\* the dated spot rows at the least day distance from day d
NearestSpotRows(d) ==
    LET dated == {i \in DOMAIN ScannedSpotDates : ScannedSpotDates[i][1] = "ts"}
    IN  {i \in dated : \A j \in dated :
            DayDistance(Ts(d), ScannedSpotDates[i]) <= DayDistance(Ts(d), ScannedSpotDates[j])}

\* among the rows, the one of the earliest date
EarliestRow(rows) ==
    CHOOSE i \in rows : \A j \in rows : ScannedSpotDates[i][2] <= ScannedSpotDates[j][2]

\* the branches are those of the alignment that ran, and a target resolved
\* by the nearest-date scan hands its price on: each later target without a
\* spot observation of its own gets the cursor; on a tie the earliest spot
\* date gives the price
ColdStartCursor ==
    /\ [k \in DOMAIN AlignTaken |-> AlignTaken[k].price] = Column(spot_data[1], "price")
    /\ \A k \in NearestScans :
          /\ NearestSpotRows(AlignTargets[k]) # {} =>
                AlignTaken[k].price = ScannedSpotPrices[EarliestRow(NearestSpotRows(AlignTargets[k]))]
          /\ \A j \in DOMAIN AlignTaken :
                j > k /\ AlignTargets[j] \notin ScannedSpotDays =>
                    /\ AlignTaken[j].branch = "cursor"
                    /\ AlignTaken[j].price = AlignTaken[j - 1].price

\* C27: a target resolved by the nearest-date scan sets the cursor, later
\* targets without an exact observation receive the cursor, and with a
\* non-empty spot series the nearest-date scan runs for at most one target
\* of an alignment; a tie in day distance goes to the earliest spot date.
C27_CursorAfterColdStart ==
    AlignmentRan /\ Len(ScannedSpotDates) >= 1 =>
        /\ ColdStartCursor
        /\ Cardinality(NearestScans) <= 1

(***************************************************************************)
(* SpecRepeat: the scan of SpecPanel, get_unified_panel, and               *)
(* get_unified_panel once more with no scan in between.  ret keeps what    *)
(* the first call returned and the spot slot as it left it.                *)
(*                                                                         *)
(* The second call builds all_dates by the same insertions as the first    *)
(* (the slot was aligned before the first call collected the dates), so    *)
(* sorted() meets the same iteration order and returns the same index,     *)
(* also for a set that holds NaT.                                          *)
(***************************************************************************)
GetUnifiedPanelAgain ==
    /\ pc = "panel"
    /\ ret' = [first_panel |-> panel, first_spot |-> spot_data]
    /\ spot_data' = align_to_futures_trading_days(spot_data, futures_data)
    /\ panel' \in {p \in unified_panels(spot_data', futures_data) :
                      all_dates(spot_data', futures_data) = all_dates(spot_data, futures_data)
                          /\ panel.raised = "" /\ p.raised = ""
                      => p.index = panel.index}
    /\ pc' = "panel_again"
    /\ UNCHANGED <<futures_data, field_mapping_cache, scanned_spot, arg, written>>

NextRepeat == ScanSpotFile \/ ScanFuturesFile \/ GetUnifiedPanel \/ GetUnifiedPanelAgain

SpecRepeat == InitPanel /\ [][NextRepeat]_vars

(***************************************************************************)
(* Claims about repeated panel building (SpecRepeat).                      *)
(***************************************************************************)
\* C28: get_unified_panel never changes the registry; its first call
\* replaces the spot slot by the aligned series, and a second call with no
\* scan in between returns the panel the first returned and leaves the spot
\* slot as the first left it.
C28_PanelRepeatable ==
    /\ [](pc = "panel_again" => panel = ret.first_panel /\ spot_data = ret.first_spot)
    /\ [][pc' \in {"panel", "panel_again"} /\ pc' # pc => futures_data' = futures_data]_vars

\* the first call replaced a spot series of two rows by the aligned series
\* over a calendar of two days, one of them not a spot day, and the second
\* call returned the same panel
C28_Witness ==
    /\ pc = "panel_again"
    /\ scanned_spot # None
    /\ ret.first_spot # scanned_spot
    /\ Cardinality(FuturesCalendar) = 2
    /\ FuturesCalendar \ ScannedSpotDays # {}
    /\ panel.raised = ""
    /\ panel = ret.first_panel
    /\ spot_data = ret.first_spot

(***************************************************************************)
(* Claims about the spot slot and the counters (SpecScan).                 *)
(***************************************************************************)
\* what one file gives on a gateway that has seen no other file: its kind,
\* "" when it is read as no table, classified as neither kind, or refused
\* by the normalizer
LoadedAlone(file) ==
    IF read_table(file) = None THEN [kind |-> ""]
    ELSE LET df == read_table(file)[1]
             classified == detect_data_type(EmptyCache, df)
         IN  IF classified.ret = "None" THEN [kind |-> ""]
             ELSE LET normalized == normalize_dataframe(classified.cache, df, classified.ret)
                  IN  IF normalized.raised # "" THEN [kind |-> ""]
                      ELSE [kind |-> classified.ret, df |-> normalized.ret,
                            code |-> extract_contract_code(file.name, df)]

SpotPositions == {k \in DOMAIN arg.csv_files : LoadedAlone(arg.csv_files[k]).kind = "spot"}
FuturesPositions == {k \in DOMAIN arg.csv_files : LoadedAlone(arg.csv_files[k]).kind = "futures"}

SharedIdentifier ==
    \E i, j \in FuturesPositions :
        i # j /\ LoadedAlone(arg.csv_files[i]).code = LoadedAlone(arg.csv_files[j]).code

\* C29: after scan_and_load the spot slot holds the normalized series of
\* the last file in discovery order that classified as spot and normalized,
\* spot_count and futures_count count the files, and futures_count is at
\* least the number of identifiers in the registry, equal to it exactly when
\* no two counted futures files derived the same identifier.
C29_SingleSpotSlot ==
    pc = "scan_returned" =>
        /\ spot_data = IF SpotPositions = {} THEN None
                       ELSE Some(LoadedAlone(arg.csv_files[Max(SpotPositions)]).df)
        /\ ret.stats.spot_count = Cardinality(SpotPositions)
        /\ ret.stats.futures_count = Cardinality(FuturesPositions)
        /\ ret.stats.futures_count >= Len(futures_data)
        /\ (ret.stats.futures_count = Len(futures_data)) <=> ~SharedIdentifier

\* two spot files and a futures file: spot_count is 2, the slot holds the
\* second spot file's series and not the first's, and the one counted
\* futures file gives the registry its one identifier
C29_Witness ==
    /\ pc = "scan_returned"
    /\ ret.stats.spot_count = 2
    /\ Cardinality(SpotPositions) = 2
    /\ spot_data = Some(LoadedAlone(arg.csv_files[Max(SpotPositions)]).df)
    /\ spot_data # Some(LoadedAlone(arg.csv_files[Min(SpotPositions)]).df)
    /\ ~SharedIdentifier
    /\ ret.stats.futures_count = 1
    /\ Len(futures_data) = 1

\* two files of one contract after a spot file: two counted futures files,
\* one identifier in the registry
C29_WitnessShared ==
    /\ pc = "scan_returned"
    /\ ret.stats.spot_count = 1
    /\ SharedIdentifier
    /\ ret.stats.futures_count = 2
    /\ Len(futures_data) = 1

====
